---------------------------- MODULE Spec2Model ----------------------------
(***************************************************************************)
(* Timetable optimisation engine of the school scheduler: the compaction   *)
(* engine (services/ga/schedule_compaction.py), the fitness metrics        *)
(* (services/ga/fitness_metrics.py), the population initialisers           *)
(* (services/ga/population_init.py and services/population_init.py), the   *)
(* genetic scheduler (services/ga/genetic_scheduler.py) and its adapter    *)
(* (backend/app/core_ga_adapter/adapter.py).                               *)
(*                                                                         *)
(* A schedule is the nested mapping schedule[day][lesson][class_id]; a     *)
(* cell holds None or an assignment <<teacher_id, subject_id>>.  A Python  *)
(* dict is a TLA+ function, so the empty dict {} is the empty function     *)
(* <<>>.  Lists are sequences.                                             *)
(***************************************************************************)
EXTENDS Integers, Sequences, FiniteSets, TLC

VARIABLES
    \* ---- compact_schedule_full applied to an arbitrary schedule ----
    cpc,          \* "input" | "once" | "twice"
    shape,        \* [days, lessons_per_day, classes]: the call's other arguments
    input,        \* the schedule handed to compact_schedule_full
    once,         \* compact_schedule_full(input)
    twice,        \* compact_schedule_full(once)
    \* ---- create_random_schedule, pass by pass ----
    ipc,          \* "random" | "minfill" | "done"
    ivariant,     \* "ga" (services/ga/population_init.py) | "legacy"
    idata,        \* [classes, subjects, teachers, days, lessons_per_day]
    ist,          \* [schedule, assigned]: schedule and assigned_teachers
    ik,           \* the position of the pass: the next (class, day) or (day, lesson)
    \* ---- generate_timetable: DictDataService, GeneticScheduler, payload ----
    pc,               \* the position in generate_timetable / generate_schedule
    payload,          \* input_data: [keys, subjects, teachers, classes]
    config,           \* [population_size, generations]
    population,       \* list of <<schedule, fitness>>
    next_population,  \* list of <<schedule, fitness>>
    generation,       \* the loop variable of the evolution loop
    best_schedule,    \* None or <<schedule>>
    best_fitness,     \* in thousandths of a point
    best_generation,
    child1,
    child2,
    result,           \* None or the result payload
    error,            \* "none" or the exception raised
    \* ---- generate_timetable called twice with the same arguments ----
    first_run,        \* None or <<result>>: the payload of the first call
    \* ---- the fitness functions applied to a schedule and to a neighbour ----
    fpc,              \* "input" | "one" | "two"
    fshape,           \* [days, lessons_per_day, classes]
    fone,             \* a schedule
    ftwo,             \* fone with one cell changed
    fm1,              \* the metrics and scores of fone
    fm2,              \* the metrics and scores of ftwo
    \* ---- one call of selection ----
    spc,              \* "call" | "sampled" | "returned" | "raised"
    contestants,      \* the population passed: a list of <<schedule, fitness>>
    tournament_size,  \* self.TOURNAMENT_SIZE
    tournament,       \* the sample, as places of contestants in sample order
    winner,           \* None or <<schedule>>: the schedule returned
    \* ---- one call of crossover on schedules held as objects ----
    xpc,              \* "call" | "returned"
    xdays,            \* self.DAYS
    heap,             \* the dict objects, by address
    xparent1,         \* address of parent1
    xparent2,         \* address of parent2
    xchild1,          \* address of child1, 0 before the call
    xchild2,          \* address of child2, 0 before the call
    xpoint,           \* crossover_point, 0 before the call
    \* ---- one call of compact_mutation ----
    mpc,              \* "call" | "returned" | "raised"
    mshape,           \* [days, lessons_per_day, classes]
    minput,           \* the schedule passed
    moutput,          \* None or <<schedule>>: the schedule returned
    \* ---- the generation runs of the job API and their results ----
    runs,             \* table generation_runs: the row of run id i at place i
    results,          \* table timetable_results, in insertion order
    tasks,            \* the background task of each run: position and locals
    response          \* the last HTTP response

compactVars == <<cpc, shape, input, once, twice>>
initVars == <<ipc, ivariant, idata, ist, ik>>

gaVars ==
    <<pc, payload, config, population, next_population, generation, best_schedule,
      best_fitness, best_generation, child1, child2, result, error>>

seedVars == <<first_run>>
fitnessVars == <<fpc, fshape, fone, ftwo, fm1, fm2>>
selectVars == <<spc, contestants, tournament_size, tournament, winner>>
crossVars == <<xpc, xdays, heap, xparent1, xparent2, xchild1, xchild2, xpoint>>
mutateVars == <<mpc, mshape, minput, moutput>>
runVars == <<runs, results, tasks, response>>

\* The variables outside each part of the engine.
compactOthers ==
    <<initVars, gaVars, seedVars, fitnessVars, selectVars,
      crossVars, mutateVars, runVars>>
initOthers ==
    <<compactVars, gaVars, seedVars, fitnessVars, selectVars,
      crossVars, mutateVars, runVars>>
gaOthers ==
    <<compactVars, initVars, seedVars, fitnessVars, selectVars,
      crossVars, mutateVars, runVars>>
fitnessOthers ==
    <<compactVars, initVars, gaVars, seedVars, selectVars,
      crossVars, mutateVars, runVars>>
selectOthers ==
    <<compactVars, initVars, gaVars, seedVars, fitnessVars,
      crossVars, mutateVars, runVars>>
crossOthers ==
    <<compactVars, initVars, gaVars, seedVars, fitnessVars,
      selectVars, mutateVars, runVars>>
mutateOthers ==
    <<compactVars, initVars, gaVars, seedVars, fitnessVars,
      selectVars, crossVars, runVars>>
runOthers ==
    <<compactVars, initVars, gaVars, seedVars, fitnessVars,
      selectVars, crossVars, mutateVars>>

vars ==
    <<cpc, shape, input, once, twice, ipc, ivariant, idata, ist, ik, pc, payload,
      config, population, next_population, generation, best_schedule, best_fitness,
      best_generation, child1, child2, result, error, first_run, fpc, fshape, fone,
      ftwo, fm1, fm2, spc, contestants, tournament_size, tournament, winner, xpc,
      xdays, heap, xparent1, xparent2, xchild1, xchild2, xpoint, mpc, mshape, minput,
      moutput, runs, results, tasks, response>>

\* Python's None, as a cell value.
None == <<>>

Min(S) == CHOOSE x \in S : \A y \in S : x <= y
Max(S) == CHOOSE x \in S : \A y \in S : x >= y

Reverse(seq) == [i \in 1..Len(seq) |-> seq[Len(seq) + 1 - i]]

\* The elements of a sequence.
Range(seq) == {seq[i] : i \in 1..Len(seq)}

\* dict.get(key) on schedule[day][lesson]: None for a missing key.
GetCell(schedule, day, lesson, class_id) ==
    IF class_id \in DOMAIN schedule[day][lesson]
    THEN schedule[day][lesson][class_id]
    ELSE None

\* schedule[day][lesson][class_id] = value (the key is created when missing).
SetCell(schedule, day, lesson, class_id, value) ==
    IF class_id \in DOMAIN schedule[day][lesson]
    THEN [schedule EXCEPT ![day][lesson][class_id] = value]
    ELSE [schedule EXCEPT ![day][lesson] =
            [c \in (DOMAIN @) \cup {class_id} |->
                IF c = class_id THEN value ELSE @[c]]]

(***************************************************************************)
(* Fitness metrics: count_teacher_conflicts.                               *)
(***************************************************************************)

\* The conflicts of one slot counted without the qualification check.
DoubleBookingsOnly(slot, teachers_by_id, todo, seen) ==
    Cardinality({c \in todo : slot[c] # None})
    - Cardinality({slot[c][1] : c \in {k \in todo : slot[k] # None}})

\* The classes of one slot in dict order: class ids are inserted in ascending
\* order by the initialisers, and deep copies keep the order.
RECURSIVE SlotConflicts(_, _, _, _)
SlotConflicts(slot, teachers_by_id, todo, seen) ==
    IF todo = {} THEN 0
    ELSE LET class_id == Min(todo)
             assignment == slot[class_id]
         IN IF assignment = None
            THEN SlotConflicts(slot, teachers_by_id, todo \ {class_id}, seen)
            ELSE LET teacher_id == assignment[1]
                     subject_id == assignment[2]
                     wrong == IF subject_id \notin teachers_by_id[teacher_id].subjects
                              THEN 1 ELSE 0
                     booked == IF teacher_id \in seen THEN 1 ELSE 0
                 IN wrong + booked
                    + SlotConflicts(slot, teachers_by_id, todo \ {class_id},
                                    seen \cup {teacher_id})

\* The loop of lines 15-27 over the classes of one slot visited in the given
\* order, from the i-th on, with the teachers seen so far.
RECURSIVE SlotConflictsInOrder(_, _, _, _, _)
SlotConflictsInOrder(slot, teachers_by_id, order, i, seen) ==
    IF i > Len(order) THEN 0
    ELSE LET assignment == slot[order[i]]
         IN IF assignment = None
            THEN SlotConflictsInOrder(slot, teachers_by_id, order, i + 1, seen)
            ELSE (IF assignment[2] \notin teachers_by_id[assignment[1]].subjects
                  THEN 1 ELSE 0)
                 + (IF assignment[1] \in seen THEN 1 ELSE 0)
                 + SlotConflictsInOrder(slot, teachers_by_id, order, i + 1,
                                        seen \cup {assignment[1]})

RECURSIVE SumOver(_, _)
SumOver(f, S) ==
    IF S = {} THEN 0
    ELSE LET x == CHOOSE y \in S : TRUE IN f[x] + SumOver(f, S \ {x})

count_teacher_conflicts(schedule, teachers_by_id, days, lessons_per_day) ==
    LET cells == Range(days) \X (1..lessons_per_day)
        per == [c \in cells |->
                  SlotConflicts(schedule[c[1]][c[2]], teachers_by_id,
                                DOMAIN schedule[c[1]][c[2]], {})]
    IN SumOver(per, cells)

\* count_teacher_gaps: per teacher and day, the free lessons between the
\* lessons in which the teacher appears.
count_teacher_gaps(schedule, teachers, days, lessons_per_day) ==
    LET pairs == (1..Len(teachers)) \X Range(days)
        taught(p) == {l \in 1..lessons_per_day :
                        \E c \in DOMAIN schedule[p[2]][l] :
                            /\ schedule[p[2]][l][c] # None
                            /\ schedule[p[2]][l][c][1] = teachers[p[1]].id}
        per == [p \in pairs |->
                  LET T == taught(p)
                      gap == [l \in T |->
                                IF l = Max(T) THEN 0
                                ELSE Min({m \in T : m > l}) - l - 1]
                  IN IF Cardinality(T) > 1 THEN SumOver(gap, T) ELSE 0]
    IN SumOver(per, pairs)

\* The lessons of a class on a day, as the metrics count them.
DayCount(schedule, day, class_id, lessons_per_day) ==
    Cardinality({l \in 1..lessons_per_day :
                    (IF class_id \in DOMAIN schedule[day][l]
                     THEN schedule[day][l][class_id] ELSE None) # None})

\* The largest r with r * r <= x, searched in lo..hi.
RECURSIVE ISqrtIn(_, _, _)
ISqrtIn(x, lo, hi) ==
    IF lo >= hi THEN lo
    ELSE LET mid == (lo + hi + 1) \div 2
         IN IF mid * mid <= x THEN ISqrtIn(x, mid, hi) ELSE ISqrtIn(x, lo, mid - 1)

\* calculate_daily_imbalance in thousandths: per class the standard deviation
\* of the daily lesson counts, sqrt(n * sum(x^2) - sum(x)^2) / n for n days,
\* rounded down to a thousandth (exact for two days, where it is |a - b| / 2).
calculate_daily_imbalance(schedule, classes, days, lessons_per_day) ==
    LET n == Len(days)
        count(i, d) == DayCount(schedule, d, classes[i], lessons_per_day)
        per == [i \in 1..Len(classes) |->
                  LET sum == SumOver([d \in Range(days) |-> count(i, d)], Range(days))
                      squares == SumOver([d \in Range(days) |-> count(i, d) * count(i, d)],
                                         Range(days))
                      spread == (n * squares - sum * sum) * 1000000
                  IN ISqrtIn(spread, 0, 46340) \div n]
    IN SumOver(per, 1..Len(classes))

count_total_lessons(schedule, days, lessons_per_day) ==
    LET cells == Range(days) \X (1..lessons_per_day)
        per == [c \in cells |->
                  Cardinality({k \in DOMAIN schedule[c[1]][c[2]] :
                                  schedule[c[1]][c[2]][k] # None})]
    IN SumOver(per, cells)

count_min_daily_lessons_deficit(schedule, classes, days, lessons_per_day, min_lessons_per_day) ==
    LET pairs == (1..Len(classes)) \X Range(days)
        per == [p \in pairs |->
                  LET day_count == DayCount(schedule, p[2], classes[p[1]], lessons_per_day)
                  IN IF day_count < min_lessons_per_day
                     THEN min_lessons_per_day - day_count ELSE 0]
    IN SumOver(per, pairs)

\* min_lessons_per_day: int = 2
MIN_LESSONS_PER_DAY == 2

\* calculate_schedule_fitness with a teacher conflict weighing 50 points.
ConflictWeighsFifty(schedule, days, lessons_per_day, teachers, classes, teachers_by_id) ==
    LET score == 1000 * 1000
                 - count_teacher_conflicts(schedule, teachers_by_id, days,
                                           lessons_per_day) * 50 * 1000
                 - count_teacher_gaps(schedule, teachers, days, lessons_per_day) * 2 * 1000
                 - calculate_daily_imbalance(schedule, classes, days, lessons_per_day)
                 + count_total_lessons(schedule, days, lessons_per_day) * 500
                 - count_min_daily_lessons_deficit(schedule, classes, days,
                                                   lessons_per_day,
                                                   MIN_LESSONS_PER_DAY) * 80 * 1000
    IN IF score > 0 THEN score ELSE 0

\* calculate_schedule_fitness, in thousandths of a point: 1000.0 minus the
\* penalties plus 0.5 per lesson, and max(0, score).
calculate_schedule_fitness(schedule, days, lessons_per_day, teachers, classes, teachers_by_id) ==
    LET score == 1000 * 1000
                 - count_teacher_conflicts(schedule, teachers_by_id, days,
                                           lessons_per_day) * 100 * 1000
                 - count_teacher_gaps(schedule, teachers, days, lessons_per_day) * 2 * 1000
                 - calculate_daily_imbalance(schedule, classes, days, lessons_per_day)
                 + count_total_lessons(schedule, days, lessons_per_day) * 500
                 - count_min_daily_lessons_deficit(schedule, classes, days,
                                                   lessons_per_day,
                                                   MIN_LESSONS_PER_DAY) * 80 * 1000
    IN IF score > 0 THEN score ELSE 0

\* count_class_gaps (services/fitness_metrics.py): per class and day, the
\* free lessons between the lessons of the class.
count_class_gaps(schedule, classes, days, lessons_per_day) ==
    LET pairs == (1..Len(classes)) \X Range(days)
        lessons(p) == {l \in 1..lessons_per_day :
                         GetCell(schedule, p[2], l, classes[p[1]]) # None}
        per == [p \in pairs |->
                  LET L == lessons(p)
                      gap == [l \in L |->
                                IF l = Max(L) THEN 0
                                ELSE Min({m \in L : m > l}) - l - 1]
                  IN IF Cardinality(L) > 1 THEN SumOver(gap, L) ELSE 0]
    IN SumOver(per, pairs)

\* count_early_gaps (services/fitness_metrics.py): per class and day, the
\* empty slots before the first lesson of the class.
count_early_gaps(schedule, classes, days, lessons_per_day) ==
    LET pairs == (1..Len(classes)) \X Range(days)
        lessons(p) == {l \in 1..lessons_per_day :
                         GetCell(schedule, p[2], l, classes[p[1]]) # None}
        per == [p \in pairs |->
                  IF lessons(p) # {} /\ Min(lessons(p)) > 1
                  THEN Min(lessons(p)) - 1 ELSE 0]
    IN SumOver(per, pairs)

\* GeneticScheduler.calculate_fitness of services/genetic_scheduler.py, in
\* thousandths of a point: class gaps weigh 3, early gaps 5, and there is no
\* minimum-lessons term.
legacy_calculate_fitness(schedule, days, lessons_per_day, teachers, classes, teachers_by_id) ==
    LET score == 1000 * 1000
                 - count_teacher_conflicts(schedule, teachers_by_id, days,
                                           lessons_per_day) * 100 * 1000
                 - count_teacher_gaps(schedule, teachers, days, lessons_per_day) * 2 * 1000
                 - count_class_gaps(schedule, classes, days, lessons_per_day) * 3 * 1000
                 - count_early_gaps(schedule, classes, days, lessons_per_day) * 5 * 1000
                 - calculate_daily_imbalance(schedule, classes, days, lessons_per_day)
                 + count_total_lessons(schedule, days, lessons_per_day) * 500
    IN IF score > 0 THEN score ELSE 0

(***************************************************************************)
(* Compaction engine: try_compact_placement and compact_schedule_full.     *)
(***************************************************************************)

\* try_compact_placement without its teacher check.
TeacherNeverBusy(schedule, day, slot, class_id, teacher_id) == FALSE

\* Lines 155-160: some other class holds teacher_id in schedule[day][slot].
TeacherBusyElsewhere(schedule, day, slot, class_id, teacher_id) ==
    \E other \in DOMAIN schedule[day][slot] :
        /\ other # class_id
        /\ schedule[day][slot][other] # None
        /\ schedule[day][slot][other][1] = teacher_id

\* The loop of try_compact_placement from lesson i on: [] when a lesson finds
\* no slot, the list of <<slot, assignment>> otherwise.
RECURSIVE PlaceFrom(_, _, _, _, _, _, _, _)
PlaceFrom(schedule, day, class_id, lessons_data, lessons_per_day, i, next_slot, placement) ==
    IF i > Len(lessons_data) THEN placement
    ELSE LET assignment == lessons_data[i][2]
             free == {slot \in next_slot..lessons_per_day :
                        ~TeacherBusyElsewhere(schedule, day, slot, class_id, assignment[1])}
         IN IF free = {} THEN <<>>
            ELSE PlaceFrom(schedule, day, class_id, lessons_data, lessons_per_day,
                           i + 1, Min(free) + 1,
                           Append(placement, <<Min(free), assignment>>))

\* try_compact_placement with next_slot starting one slot late.
try_placement_from_second_slot(schedule, day, class_id, lessons_data, lessons_per_day) ==
    PlaceFrom(schedule, day, class_id, lessons_data, lessons_per_day, 1, 2, <<>>)

try_compact_placement(schedule, day, class_id, lessons_data, lessons_per_day) ==
    PlaceFrom(schedule, day, class_id, lessons_data, lessons_per_day, 1, 1, <<>>)

\* Lines 81-85: the <<lesson, assignment>> pairs of a class on a day, by lesson.
RECURSIVE LessonsFrom(_, _, _, _, _)
LessonsFrom(schedule, day, class_id, lessons_per_day, lesson) ==
    IF lesson > lessons_per_day THEN <<>>
    ELSE LET assignment == GetCell(schedule, day, lesson, class_id)
             rest == LessonsFrom(schedule, day, class_id, lessons_per_day, lesson + 1)
         IN IF assignment # None THEN <<<<lesson, assignment>>>> \o rest ELSE rest

LessonsData(schedule, day, class_id, lessons_per_day) ==
    LessonsFrom(schedule, day, class_id, lessons_per_day, 1)

\* Lines 95-96 (and 35-36): every slot of the class on the day set to None,
\* from slot lesson on.
RECURSIVE ClearFrom(_, _, _, _, _)
ClearFrom(schedule, day, class_id, lessons_per_day, lesson) ==
    IF lesson > lessons_per_day THEN schedule
    ELSE ClearFrom(SetCell(schedule, day, lesson, class_id, None), day, class_id,
                   lessons_per_day, lesson + 1)

ClearClassDay(schedule, day, class_id, lessons_per_day) ==
    ClearFrom(schedule, day, class_id, lessons_per_day, 1)

\* Lines 123-124 and 128-129: each <<slot, assignment>> written for the class.
RECURSIVE WriteLessons(_, _, _, _, _)
WriteLessons(schedule, day, class_id, pairs, i) ==
    IF i > Len(pairs) THEN schedule
    ELSE WriteLessons(SetCell(schedule, day, pairs[i][1], class_id, pairs[i][2]),
                      day, class_id, pairs, i + 1)

LastSlot(placement) == Max({placement[i][1] : i \in 1..Len(placement)})
FirstSlot(placement) == Min({placement[i][1] : i \in 1..Len(placement)})

\* Neither order of try_compact_placement taken as a placement.
NoPlacementFound(cleared, day, class_id, lessons_data, lessons_per_day) == <<>>

\* Lines 100-120: the placement in original order, replaced by the one in
\* reversed order only when that one ends strictly earlier.
BestPlacement(cleared, day, class_id, lessons_data, lessons_per_day) ==
    LET forward == try_compact_placement(cleared, day, class_id, lessons_data,
                                         lessons_per_day)
        backward == try_compact_placement(cleared, day, class_id,
                                          Reverse(lessons_data), lessons_per_day)
        first == IF forward # <<>> /\ LastSlot(forward) < lessons_per_day + 1
                 THEN forward ELSE <<>>
        min_last_slot == IF first # <<>> THEN LastSlot(first) ELSE lessons_per_day + 1
    IN IF backward # <<>> /\ LastSlot(backward) < min_last_slot
       THEN backward ELSE first

\* The else branch of lines 127-129 left out.
RestoreNothing(cleared, day, class_id, lessons_data) == cleared

\* Lines 127-129: no placement placed every lesson, the original slots are
\* written back.
RestoreLessons(cleared, day, class_id, lessons_data) ==
    WriteLessons(cleared, day, class_id, lessons_data, 1)

\* The early continue of lines 90-93 left out.
NeverCompact(lessons_data) == FALSE

\* Lines 90-93: the occupied slots are already 1..k.
AlreadyCompact(lessons_data) ==
    LET lesson_numbers == [i \in 1..Len(lessons_data) |-> lessons_data[i][1]]
        expected_compact == [i \in 1..Len(lessons_data) |-> i]
    IN lesson_numbers = expected_compact

\* Lines 80-129: the body of the loops for one class and one day, on the
\* state [s |-> compacted, improved |-> improved].
CompactClassDay(st, day, class_id, lessons_per_day) ==
    LET lessons_data == LessonsData(st.s, day, class_id, lessons_per_day)
        cleared == ClearClassDay(st.s, day, class_id, lessons_per_day)
        best_placement == BestPlacement(cleared, day, class_id, lessons_data,
                                        lessons_per_day)
    IN IF lessons_data = <<>> THEN st
       ELSE IF AlreadyCompact(lessons_data) THEN st
       ELSE IF best_placement # <<>>
            THEN [s |-> WriteLessons(cleared, day, class_id, best_placement, 1),
                  improved |-> st.improved
                               \/ FirstSlot(best_placement) < FirstSlot(lessons_data)]
            ELSE [s |-> RestoreLessons(cleared, day, class_id, lessons_data),
                  improved |-> st.improved]

\* Lines 77-80: for cls in classes: for day in days, from the k-th pair on.
RECURSIVE CompactPassFrom(_, _, _, _, _)
CompactPassFrom(st, days, lessons_per_day, classes, k) ==
    IF k > Len(classes) * Len(days) THEN st
    ELSE LET class_id == classes[((k - 1) \div Len(days)) + 1]
             day == days[((k - 1) % Len(days)) + 1]
         IN CompactPassFrom(CompactClassDay(st, day, class_id, lessons_per_day),
                            days, lessons_per_day, classes, k + 1)

\* range(3) of line 74.
COMPACT_PASSES == 3

\* Lines 74-132: up to `passes` passes, stopping after one that did not improve.
RECURSIVE CompactPasses(_, _, _, _, _)
CompactPasses(schedule, days, lessons_per_day, classes, passes) ==
    IF passes = 0 THEN schedule
    ELSE LET st == CompactPassFrom([s |-> schedule, improved |-> FALSE],
                                   days, lessons_per_day, classes, 1)
         IN IF st.improved
            THEN CompactPasses(st.s, days, lessons_per_day, classes, passes - 1)
            ELSE st.s

compact_schedule_full(schedule, days, lessons_per_day, classes) ==
    CompactPasses(schedule, days, lessons_per_day, classes, COMPACT_PASSES)

(***************************************************************************)
(* Population initialisers.  A random draw is a choice among the values    *)
(* the draw can return, so an operator whose code draws yields the set of  *)
(* the results it can produce.                                             *)
(***************************************************************************)

\* The lesson count the initialisers try to reach per class and day.
MIN_FILL == 2

\* The qualification left out: every teacher listed for every subject.
EveryTeacherEverySubject(subjects, teachers) ==
    [s \in Range(subjects) |-> teachers]

\* GeneticScheduler.__init__, lines 68-72 of genetic_scheduler.py: for every
\* subject the list of its teachers, in the order of the teachers list.
TeachersBySubject(subjects, teachers) ==
    [s \in Range(subjects) |->
        SelectSeq(teachers, LAMBDA tch : s \in tch.subjects)]

\* teachers_by_id, line 63 of genetic_scheduler.py.
TeachersById(teachers) ==
    [id \in {teachers[i].id : i \in 1..Len(teachers)} |->
        CHOOSE tch \in Range(teachers) : tch.id = id]

\* The filter left out: every teacher of the subject counts as free.
AllTeachers(available_teachers, busy) == Range(available_teachers)

\* free_teachers: the teachers of a subject not yet booked in the slot.
FreeTeachers(available_teachers, busy) ==
    {tch \in Range(available_teachers) : tch.id \notin busy}

\* The assignments a slot can receive: a subject drawn from subjects (shuffled
\* or chosen) and a teacher drawn from its free teachers.
FreeAssignments(subjects, teachers_by_subject, busy) ==
    UNION { {<<tch.id, s>> : tch \in FreeTeachers(teachers_by_subject[s], busy)} :
            s \in Range(subjects) }

\* _assign_compact_lesson: the first shuffled subject with a free teacher and
\* one of its free teachers, or None when no subject has one.
assign_compact_lesson(day, lesson, subjects, teachers_by_subject, assigned_teachers) ==
    LET options == FreeAssignments(subjects, teachers_by_subject,
                                   assigned_teachers[day][lesson])
    IN IF options = {} THEN {None} ELSE options

\* Lines 76-77 and 110-111: the cell written and the teacher booked.
Book(st, day, slot, class_id, assignment) ==
    [schedule |-> SetCell(st.schedule, day, slot, class_id, assignment),
     assigned |-> [st.assigned EXCEPT ![day][slot] = @ \cup {assignment[1]}]]

\* Lines 42-52: every cell None, no teacher booked.
EmptyState(classes, days, lessons_per_day) ==
    [schedule |-> [d \in Range(days) |-> [l \in 1..lessons_per_day |->
                     [c \in Range(classes) |-> None]]],
     assigned |-> [d \in Range(days) |-> [l \in 1..lessons_per_day |-> {}]]]

\* The random pass going on to the next slot when a slot has no free teacher.
RECURSIVE FillSkipping(_, _, _, _, _, _, _, _, _)
FillSkipping(st, day, class_id, subjects, teachers_by_subject, lessons_per_day, slot, placed, desired_lessons) ==
    IF placed < desired_lessons /\ slot <= lessons_per_day
    THEN UNION { IF a = None
                 THEN FillSkipping(st, day, class_id, subjects, teachers_by_subject,
                                   lessons_per_day, slot + 1, placed, desired_lessons)
                 ELSE FillSkipping(Book(st, day, slot, class_id, a), day, class_id,
                                   subjects, teachers_by_subject, lessons_per_day,
                                   slot + 1, placed + 1, desired_lessons) :
                 a \in assign_compact_lesson(day, slot, subjects,
                                             teachers_by_subject, st.assigned) }
    ELSE {st}

\* Lines 64-79: the while loop of the random pass for one class and day.
RECURSIVE FillFrom(_, _, _, _, _, _, _, _, _)
FillFrom(st, day, class_id, subjects, teachers_by_subject, lessons_per_day, slot, placed, desired_lessons) ==
    IF placed < desired_lessons /\ slot <= lessons_per_day
    THEN UNION { IF a = None THEN {st}
                 ELSE FillFrom(Book(st, day, slot, class_id, a), day, class_id,
                               subjects, teachers_by_subject, lessons_per_day,
                               slot + 1, placed + 1, desired_lessons) :
                 a \in assign_compact_lesson(day, slot, subjects,
                                             teachers_by_subject, st.assigned) }
    ELSE {st}

\* Lines 56-79: desired_lessons is any of 0..lessons_per_day.
RandomFill(st, day, class_id, subjects, teachers_by_subject, lessons_per_day) ==
    UNION { FillFrom(st, day, class_id, subjects, teachers_by_subject,
                     lessons_per_day, 1, 0, desired_lessons) :
            desired_lessons \in 0..lessons_per_day }

\* Lines 94-113: the while loop of the minimum-fill pass.
RECURSIVE MinFillFrom(_, _, _, _, _, _, _, _)
MinFillFrom(st, day, class_id, subjects, teachers_by_subject, lessons_per_day, missing, next_slot) ==
    IF missing > 0 /\ next_slot <= lessons_per_day
    THEN IF GetCell(st.schedule, day, next_slot, class_id) # None
         THEN MinFillFrom(st, day, class_id, subjects, teachers_by_subject,
                          lessons_per_day, missing, next_slot + 1)
         ELSE UNION { IF a = None THEN {st}
                      ELSE MinFillFrom(Book(st, day, next_slot, class_id, a), day,
                                       class_id, subjects, teachers_by_subject,
                                       lessons_per_day, missing - 1, next_slot + 1) :
                      a \in assign_compact_lesson(day, next_slot, subjects,
                                                  teachers_by_subject, st.assigned) }
    ELSE {st}

\* Lines 84-113: the minimum-fill pass for one class and day.
MinFill(st, day, class_id, subjects, teachers_by_subject, lessons_per_day) ==
    LET current_lessons ==
            {l \in 1..lessons_per_day : GetCell(st.schedule, day, l, class_id) # None}
        missing == IF MIN_FILL - Cardinality(current_lessons) > 0
                   THEN MIN_FILL - Cardinality(current_lessons) ELSE 0
    IN IF missing <= 0 THEN {st}
       ELSE MinFillFrom(st, day, class_id, subjects, teachers_by_subject,
                        lessons_per_day, missing, Cardinality(current_lessons) + 1)

\* The k-th (class, day) of "for cls in classes: for day in days".
PairClass(classes, days, k) == classes[((k - 1) \div Len(days)) + 1]
PairDay(classes, days, k) == days[((k - 1) % Len(days)) + 1]

\* Lines 54-79: the random pass from the k-th pair on, over a set of states.
RECURSIVE RandomPassFrom(_, _, _, _, _, _, _)
RandomPassFrom(S, classes, subjects, teachers_by_subject, days, lessons_per_day, k) ==
    IF k > Len(classes) * Len(days) THEN S
    ELSE RandomPassFrom(
           UNION { RandomFill(st, PairDay(classes, days, k), PairClass(classes, days, k),
                              subjects, teachers_by_subject, lessons_per_day) : st \in S },
           classes, subjects, teachers_by_subject, days, lessons_per_day, k + 1)

\* Lines 81-113: the minimum-fill pass from the k-th pair on.
RECURSIVE MinFillPassFrom(_, _, _, _, _, _, _)
MinFillPassFrom(S, classes, subjects, teachers_by_subject, days, lessons_per_day, k) ==
    IF k > Len(classes) * Len(days) THEN S
    ELSE MinFillPassFrom(
           UNION { MinFill(st, PairDay(classes, days, k), PairClass(classes, days, k),
                           subjects, teachers_by_subject, lessons_per_day) : st \in S },
           classes, subjects, teachers_by_subject, days, lessons_per_day, k + 1)

\* create_random_schedule of services/ga/population_init.py: the schedules it
\* can return.
create_random_schedule(classes, subjects, teachers_by_subject, days, lessons_per_day) ==
    LET filled == RandomPassFrom({EmptyState(classes, days, lessons_per_day)}, classes,
                                 subjects, teachers_by_subject, days, lessons_per_day, 1)
        topped == MinFillPassFrom(filled, classes, subjects, teachers_by_subject,
                                  days, lessons_per_day, 1)
    IN {st.schedule : st \in topped}

(***************************************************************************)
(* The initialiser of services/population_init.py: cell by cell with a     *)
(* 70% draw, then up to 2 * lessons_per_day random tries per class and day.*)
(***************************************************************************)

\* The teachers held by the cells of a slot.
TeachersInSlot(slot) == {slot[c][1] : c \in {x \in DOMAIN slot : slot[x] # None}}

\* Lines 53-79: the classes of one slot from the i-th on; the slot's dict
\* grows by one key per class.
RECURSIVE LegacySlotFrom(_, _, _, _, _)
LegacySlotFrom(slot, classes, subjects, teachers_by_subject, i) ==
    IF i > Len(classes) THEN {slot}
    ELSE UNION { LegacySlotFrom([c \in (DOMAIN slot) \cup {classes[i]} |->
                                    IF c = classes[i] THEN a ELSE slot[c]],
                                classes, subjects, teachers_by_subject, i + 1) :
                 a \in {None} \cup FreeAssignments(subjects, teachers_by_subject,
                                                   TeachersInSlot(slot)) }

\* Lines 45-48: schedule[day][lesson] created for the slot just built.
PutSlot(schedule, day, lesson, slot) ==
    [d \in (DOMAIN schedule) \cup {day} |->
        IF d = day
        THEN [l \in (IF day \in DOMAIN schedule THEN DOMAIN schedule[day] ELSE {})
                    \cup {lesson} |->
                IF l = lesson THEN slot ELSE schedule[day][l]]
        ELSE schedule[d]]

\* Lines 96-118: one pass of the while loop over a set of <<schedule, missing>>.
LegacyTry(S, day, class_id, subjects, teachers_by_subject, lessons_per_day) ==
    UNION { IF sm[2] <= 0 THEN {sm}
            ELSE UNION { IF GetCell(sm[1], day, slot, class_id) # None THEN {sm}
                         ELSE (IF \E s \in Range(subjects) :
                                     FreeTeachers(teachers_by_subject[s],
                                                  TeachersInSlot(sm[1][day][slot])) = {}
                               THEN {sm} ELSE {}) \cup
                              { <<SetCell(sm[1], day, slot, class_id, a), sm[2] - 1>> :
                                a \in FreeAssignments(subjects, teachers_by_subject,
                                                      TeachersInSlot(sm[1][day][slot])) } :
                         slot \in 1..lessons_per_day } :
            sm \in S }

RECURSIVE LegacyTries(_, _, _, _, _, _, _)
LegacyTries(S, day, class_id, subjects, teachers_by_subject, lessons_per_day, tries) ==
    IF tries = 0 THEN S
    ELSE LegacyTries(LegacyTry(S, day, class_id, subjects, teachers_by_subject,
                               lessons_per_day),
                     day, class_id, subjects, teachers_by_subject, lessons_per_day,
                     tries - 1)

\* Lines 84-118: the minimum-fill bias for one class and day.
LegacyMinFill(schedule, day, class_id, subjects, teachers_by_subject, lessons_per_day) ==
    LET current_lessons ==
            {l \in 1..lessons_per_day : GetCell(schedule, day, l, class_id) # None}
        missing == IF MIN_FILL - Cardinality(current_lessons) > 0
                   THEN MIN_FILL - Cardinality(current_lessons) ELSE 0
    IN IF missing <= 0 THEN {schedule}
       ELSE { sm[1] : sm \in LegacyTries({<<schedule, missing>>}, day, class_id,
                                         subjects, teachers_by_subject,
                                         lessons_per_day, lessons_per_day * 2) }

(***************************************************************************)
(* Compaction mutation (compact_mutation).                                 *)
(***************************************************************************)

\* The check left out: no teacher counts as busy.
TeacherNeverTaken(schedule, day, slot, teacher_id) == FALSE

\* Lines 44-48: some class, the mutated one included, holds teacher_id in the
\* slot.
TeacherBusy(schedule, day, slot, teacher_id) ==
    \E other \in DOMAIN schedule[day][slot] :
        /\ schedule[day][slot][other] # None
        /\ schedule[day][slot][other][1] = teacher_id

\* Lines 38-57: the lessons written back from the i-th on, each to the first
\* slot from new_lesson on where its teacher is not busy, or to its original
\* slot when there is none.
RECURSIVE MutationPlaceFrom(_, _, _, _, _, _, _)
MutationPlaceFrom(mutated, day, class_id, lessons_data, lessons_per_day, i, new_lesson) ==
    IF i > Len(lessons_data) THEN mutated
    ELSE LET original_lesson == lessons_data[i][1]
             assignment == lessons_data[i][2]
             free == {slot \in new_lesson..lessons_per_day :
                        ~TeacherBusy(mutated, day, slot, assignment[1])}
         IN IF free = {}
            THEN MutationPlaceFrom(SetCell(mutated, day, original_lesson, class_id,
                                           assignment),
                                   day, class_id, lessons_data, lessons_per_day,
                                   i + 1, new_lesson)
            ELSE MutationPlaceFrom(SetCell(mutated, day, Min(free), class_id, assignment),
                                   day, class_id, lessons_data, lessons_per_day,
                                   i + 1, Min(free) + 1)

\* Lines 27-57: one selected class on one selected day.
MutateClassDay(mutated, day, class_id, lessons_per_day) ==
    LET lessons_data == LessonsData(mutated, day, class_id, lessons_per_day)
    IN IF lessons_data = <<>> THEN mutated
       ELSE MutationPlaceFrom(ClearClassDay(mutated, day, class_id, lessons_per_day),
                              day, class_id, lessons_data, lessons_per_day, 1, 1)

\* random.sample(list, n) for n drawn by random.randint(lo, hi): the lists of
\* n distinct elements, in every order.
Samples(list, lo, hi) ==
    UNION { {s \in [1..n -> Range(list)] : \A i, j \in 1..n : i # j => s[i] # s[j]} :
            n \in lo..hi }

RECURSIVE MutateDaysFrom(_, _, _, _, _)
MutateDaysFrom(mutated, selected_days, class_id, lessons_per_day, i) ==
    IF i > Len(selected_days) THEN mutated
    ELSE MutateDaysFrom(MutateClassDay(mutated, selected_days[i], class_id,
                                       lessons_per_day),
                        selected_days, class_id, lessons_per_day, i + 1)

\* Lines 21-57: the selected classes from the i-th on, each with its own draw
\* of 2..min(4, len(days)) days, over a set of schedules.
RECURSIVE MutateClassesFrom(_, _, _, _, _)
MutateClassesFrom(S, selected_classes, days, lessons_per_day, i) ==
    IF i > Len(selected_classes) THEN S
    ELSE MutateClassesFrom(
           { MutateDaysFrom(m, selected_days, selected_classes[i], lessons_per_day, 1) :
             m \in S,
             selected_days \in Samples(days, 2, IF Len(days) < 4 THEN Len(days) ELSE 4) },
           selected_classes, days, lessons_per_day, i + 1)

\* random.randint(2, min(5, len(classes))) and random.randint(2, min(4,
\* len(days))) raise ValueError on an empty range.
CompactMutationRaises(days, classes) == Len(classes) < 2 \/ Len(days) < 2

\* compact_mutation: the schedules it can return (classes is the list of
\* class ids).
compact_mutation(schedule, days, lessons_per_day, classes) ==
    UNION { MutateClassesFrom({schedule}, selected_classes, days, lessons_per_day, 1) :
            selected_classes \in
                Samples(classes, 2, IF Len(classes) < 5 THEN Len(classes) ELSE 5) }

(***************************************************************************)
(* GeneticScheduler.  DAYS and LESSONS_PER_DAY are class constants of the  *)
(* source (five days, six lessons); the model runs the scheduler on the    *)
(* first two days and on LESSONS_PER_DAY lessons.                          *)
(***************************************************************************)

\* DAYS = ["Monday", "Tuesday", ...]: the days by position.
DAYS == <<1, 2>>

\* LESSONS_PER_DAY (6 in the source).
LESSONS_PER_DAY == 2

\* TOURNAMENT_SIZE = 5
TOURNAMENT_SIZE == 5

\* The divisor of elite_size = self.POPULATION_SIZE // 10, scaled down with
\* the population sizes (10 in the source): populations of 2 and 3 keep an
\* elite of 1, a population of 1 keeps none.
ELITE_SHARE == 2

\* num_mutations = random.randint(1, 5)
MAX_POINT_MUTATIONS == 5

\* self.classes etc. of the scheduler: the lists of the dataset, and the ids.
Ids(list) == [i \in 1..Len(list) |-> list[i].id]

\* random.sample(population, min(size, len(population))): the places of the
\* sampled individuals, in every sample order.
TournamentSamples(individuals, size) ==
    LET n == Min({size, Len(individuals)})
    IN {s \in [1..n -> 1..Len(individuals)] : \A i, j \in 1..n : i # j => s[i] # s[j]}

\* The place in the sample max(tournament, key=lambda x: x[1]) returns,
\* scanning from place i with the best so far: a later individual replaces
\* the best only when strictly fitter.
RECURSIVE MaxFrom(_, _, _, _)
MaxFrom(individuals, sample, i, best) ==
    IF i > Len(sample) THEN best
    ELSE MaxFrom(individuals, sample, i + 1,
                 IF individuals[sample[i]][2] > individuals[sample[best]][2]
                 THEN i ELSE best)

\* The last of the fittest individuals of the sample.
LastOfFittest(individuals, sample) ==
    individuals[sample[Max({k \in 1..Len(sample) :
                              \A j \in 1..Len(sample) :
                                  individuals[sample[j]][2]
                                      <= individuals[sample[k]][2]})]]

\* max(tournament, key=lambda x: x[1]) on a sample that is not empty.
TournamentMax(individuals, sample) ==
    individuals[sample[MaxFrom(individuals, sample, 2, 1)]]

\* selection: the schedules that can be returned for a population that is
\* not empty, over every sample.
selection(individuals) ==
    { TournamentMax(individuals, sample)[1] :
          sample \in TournamentSamples(individuals, TOURNAMENT_SIZE) }

\* crossover: the pairs <<child1, child2>> for every crossover_point in
\* 1..len(DAYS) - 1; the days DAYS[crossover_point:] are exchanged.
crossover(parent1, parent2) ==
    { LET swapped == {DAYS[i] : i \in (crossover_point + 1)..Len(DAYS)}
      IN << [d \in DOMAIN parent1 |-> IF d \in swapped THEN parent2[d] ELSE parent1[d]],
            [d \in DOMAIN parent2 |-> IF d \in swapped THEN parent1[d] ELSE parent2[d]] >> :
      crossover_point \in 1..(Len(DAYS) - 1) }

\* Lines 125-138: one edit of the standard mutation over a set of schedules:
\* a cell of a random day, lesson and class is cleared, or receives a random
\* subject with one of its teachers, or is left when the subject has none.
PointEdit(S, classes, subjects, teachers_by_subject) ==
    UNION { UNION { {SetCell(m, cell[1], cell[2], cell[3], None)}
                    \cup UNION { {SetCell(m, cell[1], cell[2], cell[3], <<tch.id, s>>) :
                                  tch \in Range(teachers_by_subject[s])} :
                                s \in Range(subjects) }
                    \cup (IF \E s \in Range(subjects) : teachers_by_subject[s] = <<>>
                          THEN {m} ELSE {}) :
                    cell \in Range(DAYS) \X (1..LESSONS_PER_DAY) \X Range(classes) } :
            m \in S }

\* Lines 122-138: the schedules after exactly n edits.
RECURSIVE PointEdits(_, _, _, _, _)
PointEdits(S, classes, subjects, teachers_by_subject, n) ==
    IF n = 0 THEN S
    ELSE PointEdits(PointEdit(S, classes, subjects, teachers_by_subject),
                    classes, subjects, teachers_by_subject, n - 1)

(***************************************************************************)
(* compact_schedule_full as a function of its arguments: the schedule is   *)
(* drawn from every dense schedule of the shape, double bookings and       *)
(* wrong-subject cells included, and the function is applied twice.        *)
(***************************************************************************)

\* Teachers that may appear in a schedule handed to compact_schedule_full.
MaxTeachers == 2

\* teachers_by_id of the fitness metrics: odd teachers teach subject 1, even
\* teachers teach nothing, so that their cells are wrong-subject cells.
CompactTeachersById ==
    [t \in 1..MaxTeachers |->
        [id |-> t, subjects |-> IF t % 2 = 1 THEN {1} ELSE {}]]

\* The arguments days, lessons_per_day and classes of the call.
CompactShapes ==
    { [days |-> <<1>>, lessons_per_day |-> 4, classes |-> <<1, 2>>],
      [days |-> <<1>>, lessons_per_day |-> 3, classes |-> <<1, 2, 3>>],
      [days |-> <<1, 2>>, lessons_per_day |-> 2, classes |-> <<1, 2>>] }

CompactCells == {None} \cup {<<t, 1>> : t \in 1..MaxTeachers}

DenseSchedules(sh) ==
    [Range(sh.days) -> [1..sh.lessons_per_day -> [Range(sh.classes) -> CompactCells]]]

\* The variables of a part of the engine that a specification leaves alone.
CompactIdle ==
    /\ cpc = "idle" /\ shape = <<>> /\ input = <<>> /\ once = <<>> /\ twice = <<>>
InitIdle ==
    /\ ipc = "idle" /\ ivariant = "none" /\ idata = <<>> /\ ist = <<>> /\ ik = 0
GaIdle ==
    /\ pc = "idle" /\ payload = <<>> /\ config = <<>> /\ population = <<>>
    /\ next_population = <<>> /\ generation = 0 /\ best_schedule = <<>>
    /\ best_fitness = 0 /\ best_generation = 0 /\ child1 = <<>> /\ child2 = <<>>
    /\ result = <<>> /\ error = "none"
SeedIdle == first_run = <<>>
FitnessIdle ==
    /\ fpc = "idle" /\ fshape = <<>> /\ fone = <<>> /\ ftwo = <<>> /\ fm1 = <<>>
    /\ fm2 = <<>>
SelectIdle ==
    /\ spc = "idle" /\ contestants = <<>> /\ tournament_size = 0 /\ tournament = <<>>
    /\ winner = <<>>
CrossIdle ==
    /\ xpc = "idle" /\ xdays = <<>> /\ heap = <<>> /\ xparent1 = 0 /\ xparent2 = 0
    /\ xchild1 = 0 /\ xchild2 = 0 /\ xpoint = 0
MutateIdle == mpc = "idle" /\ mshape = <<>> /\ minput = <<>> /\ moutput = <<>>
RunIdle == runs = <<>> /\ results = <<>> /\ tasks = <<>> /\ response = <<>>
OthersIdle == MutateIdle /\ RunIdle

CompactInit ==
    /\ cpc = "input"
    /\ shape \in CompactShapes
    /\ input \in DenseSchedules(shape)
    /\ once = <<>>
    /\ twice = <<>>
    /\ InitIdle
    /\ GaIdle
    /\ SeedIdle
    /\ FitnessIdle
    /\ SelectIdle
    /\ CrossIdle
    /\ OthersIdle

\* compacted = compact_schedule_full(schedule, days, lessons_per_day, classes)
CompactFirst ==
    /\ cpc = "input"
    /\ once' = compact_schedule_full(input, shape.days, shape.lessons_per_day,
                                     shape.classes)
    /\ cpc' = "once"
    /\ UNCHANGED <<shape, input, twice, compactOthers>>

\* The result compacted once more.
CompactSecond ==
    /\ cpc = "once"
    /\ twice' = compact_schedule_full(once, shape.days, shape.lessons_per_day,
                                      shape.classes)
    /\ cpc' = "twice"
    /\ UNCHANGED <<shape, input, once, compactOthers>>

CompactNext == CompactFirst \/ CompactSecond

SpecCompact == CompactInit /\ [][CompactNext]_vars

(***************************************************************************)
(* create_random_schedule pass by pass (specification SpecInit): one step  *)
(* per (class, day) of the ga initialiser, one step per (day, lesson) slot *)
(* and per (class, day) of the legacy one.                                 *)
(***************************************************************************)

\* The teacher lists of the datasets: n teachers, teacher t teaching subject 1
\* (odd t) or 2 (even t), and one teacher teaching both subjects.
InitTeacherLists ==
    { [t \in 1..n |-> [id |-> t, subjects |-> {((t - 1) % 2) + 1}]] :
      n \in 1..MaxTeachers }
    \cup { <<[id |-> 1, subjects |-> {1, 2}]>> }

InitDatasets ==
    { [classes |-> <<1, 2>>, subjects |-> <<1, 2>>, teachers |-> tl,
       days |-> sh.days, lessons_per_day |-> sh.lessons_per_day] :
      tl \in InitTeacherLists,
      sh \in { [days |-> <<1, 2>>, lessons_per_day |-> 2],
               [days |-> <<1>>, lessons_per_day |-> 3] } }

InitTbs == TeachersBySubject(idata.subjects, idata.teachers)
InitPairs == Len(idata.classes) * Len(idata.days)
InitSlots == Len(idata.days) * idata.lessons_per_day

InitInit ==
    /\ ipc = "random"
    /\ ivariant \in {"ga", "legacy"}
    /\ idata \in InitDatasets
    /\ ist = IF ivariant = "ga"
             THEN EmptyState(idata.classes, idata.days, idata.lessons_per_day)
             ELSE [schedule |-> <<>>, assigned |-> <<>>]
    /\ ik = 1
    /\ CompactIdle
    /\ GaIdle
    /\ SeedIdle
    /\ FitnessIdle
    /\ SelectIdle
    /\ CrossIdle
    /\ OthersIdle

\* ga, lines 54-79: the random pass for the ik-th (class, day).
GaRandomStep ==
    /\ ipc = "random" /\ ivariant = "ga"
    /\ ist' \in RandomFill(ist, PairDay(idata.classes, idata.days, ik),
                           PairClass(idata.classes, idata.days, ik),
                           idata.subjects, InitTbs, idata.lessons_per_day)
    /\ IF ik = InitPairs THEN ipc' = "minfill" /\ ik' = 1
                         ELSE ipc' = ipc /\ ik' = ik + 1
    /\ UNCHANGED <<ivariant, idata, initOthers>>

\* ga, lines 81-113: the minimum-fill pass for the ik-th (class, day).
GaMinFillStep ==
    /\ ipc = "minfill" /\ ivariant = "ga"
    /\ ist' \in MinFill(ist, PairDay(idata.classes, idata.days, ik),
                        PairClass(idata.classes, idata.days, ik),
                        idata.subjects, InitTbs, idata.lessons_per_day)
    /\ IF ik = InitPairs THEN ipc' = "done" /\ ik' = 1
                         ELSE ipc' = ipc /\ ik' = ik + 1
    /\ UNCHANGED <<ivariant, idata, initOthers>>

\* legacy, lines 45-79: the ik-th (day, lesson) slot, class by class.
LegacySlotStep ==
    /\ ipc = "random" /\ ivariant = "legacy"
    /\ LET day == idata.days[((ik - 1) \div idata.lessons_per_day) + 1]
           lesson == ((ik - 1) % idata.lessons_per_day) + 1
       IN \E slot \in LegacySlotFrom(<<>>, idata.classes, idata.subjects, InitTbs, 1) :
            ist' = [ist EXCEPT !.schedule = PutSlot(@, day, lesson, slot)]
    /\ IF ik = InitSlots THEN ipc' = "minfill" /\ ik' = 1
                         ELSE ipc' = ipc /\ ik' = ik + 1
    /\ UNCHANGED <<ivariant, idata, initOthers>>

\* legacy, lines 82-118: the minimum-fill bias for the ik-th (class, day).
LegacyMinFillStep ==
    /\ ipc = "minfill" /\ ivariant = "legacy"
    /\ \E s \in LegacyMinFill(ist.schedule, PairDay(idata.classes, idata.days, ik),
                              PairClass(idata.classes, idata.days, ik),
                              idata.subjects, InitTbs, idata.lessons_per_day) :
          ist' = [ist EXCEPT !.schedule = s]
    /\ IF ik = InitPairs THEN ipc' = "done" /\ ik' = 1
                         ELSE ipc' = ipc /\ ik' = ik + 1
    /\ UNCHANGED <<ivariant, idata, initOthers>>

InitNext == GaRandomStep \/ GaMinFillStep \/ LegacySlotStep \/ LegacyMinFillStep

SpecInit == InitInit /\ [][InitNext]_vars

(***************************************************************************)
(* generate_timetable (specification Spec): the adapter validates the      *)
(* dataset, constructs the scheduler, applies the config, runs             *)
(* generate_schedule and builds the result payload.  An exception leaves   *)
(* the run in pc = "raised" with its type in error.                        *)
(***************************************************************************)

\* config["population_size"] ranges over 0..MaxPopulation.
MaxPopulation == 2

\* config["generations"] ranges over 0..MaxGenerations.
MaxGenerations == 1

\* The class list of a dataset has up to MaxClasses classes.
MaxClasses == 2

\* A run holds at most MaxColumns class columns in its population:
\* population_size * len(classes) <= MaxColumns.
MaxColumns == 2

CLASS_NAMES == <<"5A", "5B", "5C">>

\* The lists a dataset can hold under a key: empty, or the school below.  Art
\* has no qualified teacher.
GaSubjectLists == {<<>>, <<[id |-> 1, name |-> "Math"], [id |-> 2, name |-> "Art"]>>}
GaTeacherLists == {<<>>, <<[id |-> 1, name |-> "Ivanov", subjects |-> {1}]>>}
GaClassLists == {[i \in 1..n |-> [id |-> i, name |-> CLASS_NAMES[i]]] : n \in 0..MaxClasses}

DATASET_KEYS == {"subjects", "teachers", "classes"}

\* input_data: keys is the set of keys whose value is not None; the value of
\* payload.get(key) for any other key is None.
Payloads ==
    { p \in [keys : SUBSET DATASET_KEYS, subjects : GaSubjectLists,
             teachers : GaTeacherLists, classes : GaClassLists] :
        /\ "subjects" \notin p.keys => p.subjects = <<>>
        /\ "teachers" \notin p.keys => p.teachers = <<>>
        /\ "classes" \notin p.keys => p.classes = <<>> }

\* config["seed"]
SEEDS == {42}

\* config: _apply_ga_config reads population_size and generations (and
\* mutation_rate, tournament_size); no code reads seed.
Configs ==
    [population_size : 0..MaxPopulation, generations : 0..MaxGenerations, seed : SEEDS]

\* A validation that does not look at classes.
ClassesNotValidated(data) == {"subjects", "teachers"} \subseteq data.keys

\* DictDataService.__init__: none of the three values is None.
DatasetComplete(data) == DATASET_KEYS \subseteq data.keys

\* The scheduler's fields.
GaClassIds == Ids(payload.classes)
GaSubjectIds == Ids(payload.subjects)
GaTeachersBySubject == TeachersBySubject(GaSubjectIds, payload.teachers)

calculate_fitness(schedule) ==
    calculate_schedule_fitness(schedule, DAYS, LESSONS_PER_DAY, payload.teachers,
                               GaClassIds, TeachersById(payload.teachers))

\* population.sort(key=lambda x: x[1], reverse=True): stable, so among equal
\* fitnesses the earlier individual stays first.
RECURSIVE SortByFitness(_)
SortByFitness(pop) ==
    IF pop = <<>> THEN <<>>
    ELSE LET i == Min({j \in 1..Len(pop) : \A m \in 1..Len(pop) : pop[m][2] <= pop[j][2]})
         IN <<pop[i]>> \o SortByFitness(SubSeq(pop, 1, i - 1) \o SubSeq(pop, i + 1, Len(pop)))

\* mutate: the schedules it can return, and the exceptions it can raise.
MutateResults(schedule) ==
    (IF CompactMutationRaises(DAYS, GaClassIds) THEN {}
     ELSE compact_mutation(schedule, DAYS, LESSONS_PER_DAY, GaClassIds))
    \cup (IF GaClassIds = <<>> THEN {}
          ELSE UNION { PointEdits({schedule}, GaClassIds, GaSubjectIds,
                                  GaTeachersBySubject, n) :
                       n \in 1..MAX_POINT_MUTATIONS })

\* ValueError from random.randint in compact_mutation; IndexError from
\* random.choice(self.classes) or random.choice(self.subjects).
MutateErrors ==
    (IF CompactMutationRaises(DAYS, GaClassIds) THEN {"ValueError"} ELSE {})
    \cup (IF GaClassIds = <<>> \/ GaSubjectIds = <<>> THEN {"IndexError"} ELSE {})

\* schedule[day][lesson] of the metrics raises KeyError on a missing key.
MissingKey(schedule) ==
    \E day \in Range(DAYS) :
        \/ day \notin DOMAIN schedule
        \/ \E lesson \in 1..LESSONS_PER_DAY : lesson \notin DOMAIN schedule[day]

\* str(lesson)
DIGITS == <<"1", "2", "3", "4", "5", "6", "7", "8", "9">>
str(n) == DIGITS[n]

\* round(fitness, 2), from thousandths to hundredths, ties to even.
Round2(f) ==
    LET q == f \div 10
        r == f % 10
    IN IF r > 5 \/ (r = 5 /\ q % 2 = 1) THEN q + 1 ELSE q

\* output["schedule"][day][str(lesson)]: one entry per class name; when two
\* classes of the slot have the same name the later one overwrites.
OutputSlot(day_schedule) ==
    LET name(class_id) ==
            payload.classes[CHOOSE i \in 1..Len(payload.classes) :
                                payload.classes[i].id = class_id].name
        last(n) == Max({i \in 1..Len(payload.classes) :
                          /\ payload.classes[i].id \in DOMAIN day_schedule
                          /\ payload.classes[i].name = n})
    IN [n \in {name(class_id) : class_id \in DOMAIN day_schedule} |->
          LET assignment == day_schedule[payload.classes[last(n)].id]
          IN IF assignment = None THEN None
             ELSE << payload.teachers[CHOOSE i \in 1..Len(payload.teachers) :
                                         payload.teachers[i].id = assignment[1]].name,
                     payload.subjects[CHOOSE i \in 1..Len(payload.subjects) :
                                         payload.subjects[i].id = assignment[2]].name >>]

\* _build_result_payload, once the statistics have been computed.
build_result_payload(schedule, fitness, gen) ==
    [ schedule |->
        [day \in Range(DAYS) |->
           [key \in {str(lesson) : lesson \in 1..LESSONS_PER_DAY} |->
              OutputSlot(schedule[day][CHOOSE lesson \in 1..LESSONS_PER_DAY :
                                          str(lesson) = key])]],
      fitness_score |-> Round2(fitness),
      generation |-> gen,
      statistics |->
        [ total_lessons |-> count_total_lessons(schedule, DAYS, LESSONS_PER_DAY),
          teacher_conflicts |->
              count_teacher_conflicts(schedule, TeachersById(payload.teachers), DAYS,
                                      LESSONS_PER_DAY),
          teacher_gaps |->
              count_teacher_gaps(schedule, payload.teachers, DAYS, LESSONS_PER_DAY) ] ]

GaInit ==
    /\ pc = "start"
    /\ payload \in Payloads
    /\ config \in Configs
    /\ config.population_size * Len(payload.classes) <= MaxColumns
    /\ population = <<>>
    /\ next_population = <<>>
    /\ generation = 0
    /\ best_schedule = None
    /\ best_fitness = 0
    /\ best_generation = 0
    /\ child1 = None
    /\ child2 = None
    /\ result = None
    /\ error = "none"
    /\ CompactIdle
    /\ InitIdle
    /\ SeedIdle
    /\ FitnessIdle
    /\ SelectIdle
    /\ CrossIdle
    /\ OthersIdle

\* data_service = DictDataService(input_data)
DictDataServiceInit ==
    /\ pc = "start"
    /\ IF DatasetComplete(payload)
       THEN pc' = "service" /\ error' = error
       ELSE pc' = "raised" /\ error' = "ValueError"
    /\ UNCHANGED <<payload, config, population, next_population, generation,
                   best_schedule, best_fitness, best_generation, child1, child2,
                   result, gaOthers>>

\* scheduler = GeneticScheduler(data_service); _apply_ga_config(scheduler,
\* config).  Building teachers_by_id etc. iterates the lists: a None list
\* raises TypeError.
SchedulerInit ==
    /\ pc = "service"
    /\ IF DATASET_KEYS \subseteq payload.keys
       THEN pc' = "scheduler" /\ error' = error
       ELSE pc' = "raised" /\ error' = "TypeError"
    /\ UNCHANGED <<payload, config, population, next_population, generation,
                   best_schedule, best_fitness, best_generation, child1, child2,
                   result, gaOthers>>

\* generate_schedule, lines 150-164.
InitializePopulation ==
    /\ pc = "scheduler"
    /\ \E schedules \in
            [1..config.population_size ->
                create_random_schedule(GaClassIds, GaSubjectIds, GaTeachersBySubject,
                                       DAYS, LESSONS_PER_DAY)] :
          population' = [i \in 1..config.population_size |->
                            <<schedules[i], calculate_fitness(schedules[i])>>]
    /\ best_schedule' = None
    /\ best_fitness' = -1000
    /\ best_generation' = 0
    /\ generation' = 0
    /\ pc' = "loop"
    /\ UNCHANGED <<payload, config, next_population, child1, child2, result, error,
                   gaOthers>>

\* The last POPULATION_SIZE // ELITE_SHARE individuals of the sorted
\* population kept instead of the first.
EliteFromTail(sorted, population_size) ==
    SubSeq(sorted, Len(sorted) - population_size \div ELITE_SHARE + 1, Len(sorted))

\* Lines 183-185: elite_size = self.POPULATION_SIZE // 10 and
\* population[:elite_size], on the sorted population.
Elite(sorted, population_size) ==
    SubSeq(sorted, 1, Min({Len(sorted), population_size \div ELITE_SHARE}))

\* The comparison of line 172 with ties included.
HeadNotWorse(head_fitness, tracked) == head_fitness >= tracked

\* Line 172: population[0][1] > best_fitness.
HeadImproves(head_fitness, tracked) == head_fitness > tracked

\* Lines 167-185: the head of one generation; population[0] raises
\* IndexError on an empty population.
GenerationStart ==
    /\ pc = "loop"
    /\ generation < config.generations
    /\ IF population = <<>>
       THEN /\ pc' = "raised"
            /\ error' = "IndexError"
            /\ UNCHANGED <<population, next_population, best_schedule, best_fitness,
                           best_generation>>
       ELSE LET sorted == SortByFitness(population)
            IN /\ population' = sorted
               /\ IF HeadImproves(sorted[1][2], best_fitness)
                  THEN /\ best_fitness' = sorted[1][2]
                       /\ best_schedule' = <<sorted[1][1]>>
                       /\ best_generation' = generation
                  ELSE UNCHANGED <<best_schedule, best_fitness, best_generation>>
               /\ next_population' = Elite(sorted, config.population_size)
               /\ pc' = "offspring"
               /\ error' = error
    /\ UNCHANGED <<payload, config, generation, child1, child2, result, gaOthers>>

\* Lines 187-194: two tournaments and the crossover of their winners.
SelectAndCrossover ==
    /\ pc = "offspring"
    /\ Len(next_population) < config.population_size
    /\ \E parent1 \in selection(population), parent2 \in selection(population) :
        \E children \in crossover(parent1, parent2) :
            /\ child1' = children[1]
            /\ child2' = children[2]
    /\ pc' = "mutate1"
    /\ UNCHANGED <<payload, config, population, next_population, generation,
                   best_schedule, best_fitness, best_generation, result, error,
                   gaOthers>>

\* Lines 197-198: child1 is mutated with probability MUTATION_RATE.
MutateChild1 ==
    /\ pc = "mutate1"
    /\ \/ pc' = "mutate2" /\ UNCHANGED <<child1, error>>
       \/ \E mutated \in MutateResults(child1) :
            child1' = mutated /\ pc' = "mutate2" /\ error' = error
       \/ \E e \in MutateErrors :
            error' = e /\ pc' = "raised" /\ child1' = child1
    /\ UNCHANGED <<payload, config, population, next_population, generation,
                   best_schedule, best_fitness, best_generation, child2, result,
                   gaOthers>>

\* Lines 199-200: child2 is mutated with probability MUTATION_RATE.
MutateChild2 ==
    /\ pc = "mutate2"
    /\ \/ pc' = "append" /\ UNCHANGED <<child2, error>>
       \/ \E mutated \in MutateResults(child2) :
            child2' = mutated /\ pc' = "append" /\ error' = error
       \/ \E e \in MutateErrors :
            error' = e /\ pc' = "raised" /\ child2' = child2
    /\ UNCHANGED <<payload, config, population, next_population, generation,
                   best_schedule, best_fitness, best_generation, child1, result,
                   gaOthers>>

\* The second child appended whatever the length of the next population.
AlwaysRoom(next, population_size) == TRUE

\* Line 207, after child1 was appended to next:
\* len(next_population) < self.POPULATION_SIZE.
RoomForSecond(next, population_size) == Len(next) + 1 < population_size

\* Lines 203-208: the children are evaluated; child2 is appended only while
\* the next population is not full.
AppendChildren ==
    /\ pc = "append"
    /\ next_population' =
          IF RoomForSecond(next_population, config.population_size)
          THEN next_population \o << <<child1, calculate_fitness(child1)>>,
                                     <<child2, calculate_fitness(child2)>> >>
          ELSE Append(next_population, <<child1, calculate_fitness(child1)>>)
    /\ child1' = None
    /\ child2' = None
    /\ pc' = "offspring"
    /\ UNCHANGED <<payload, config, population, generation, best_schedule,
                   best_fitness, best_generation, result, error, gaOthers>>

\* Line 210: population = next_population, and the next generation.
NextGeneration ==
    /\ pc = "offspring"
    /\ Len(next_population) >= config.population_size
    /\ population' = next_population
    /\ next_population' = <<>>
    /\ generation' = generation + 1
    /\ pc' = "loop"
    /\ UNCHANGED <<payload, config, best_schedule, best_fitness, best_generation,
                   child1, child2, result, error, gaOthers>>

\* Lines 216-231: the final compaction and the return; without a tracked
\* best the method returns the empty dict and 0.0.
FinalCompaction ==
    /\ pc = "loop"
    /\ generation >= config.generations
    /\ IF best_schedule # None
       THEN LET compacted == compact_schedule_full(best_schedule[1], DAYS,
                                                   LESSONS_PER_DAY, GaClassIds)
            IN /\ best_schedule' = <<compacted>>
               /\ best_fitness' = calculate_fitness(compacted)
       ELSE /\ best_schedule' = << <<>> >>
            /\ best_fitness' = 0
    /\ pc' = "returned"
    /\ UNCHANGED <<payload, config, population, next_population, generation,
                   best_generation, child1, child2, result, error, gaOthers>>

\* result = _build_result_payload(schedule, scheduler, fitness, generation)
BuildResult ==
    /\ pc = "returned"
    /\ IF MissingKey(best_schedule[1])
       THEN pc' = "raised" /\ error' = "KeyError" /\ result' = result
       ELSE /\ result' = build_result_payload(best_schedule[1], best_fitness,
                                              best_generation)
            /\ pc' = "done"
            /\ error' = error
    /\ UNCHANGED <<payload, config, population, next_population, generation,
                   best_schedule, best_fitness, best_generation, child1, child2,
                   gaOthers>>

Next ==
    \/ DictDataServiceInit
    \/ SchedulerInit
    \/ InitializePopulation
    \/ GenerationStart
    \/ SelectAndCrossover
    \/ MutateChild1
    \/ MutateChild2
    \/ AppendChildren
    \/ NextGeneration
    \/ FinalCompaction
    \/ BuildResult

Spec == GaInit /\ [][Next]_vars

(***************************************************************************)
(* generate_timetable called twice with the same input_data and the same   *)
(* config, seed included (specification SpecSeed): the result of the first *)
(* call is kept in first_run and the second call starts from scratch.  The *)
(* random module is the interpreter's global generator, which no code of   *)
(* the engine seeds, so every draw of the second call is free again.       *)
(***************************************************************************)

\* The first call has returned its payload; the second call begins.
SecondCall ==
    /\ pc = "done"
    /\ first_run = None
    /\ first_run' = <<result>>
    /\ pc' = "start"
    /\ population' = <<>>
    /\ next_population' = <<>>
    /\ generation' = 0
    /\ best_schedule' = None
    /\ best_fitness' = 0
    /\ best_generation' = 0
    /\ result' = None
    /\ UNCHANGED <<payload, config, child1, child2, error, compactVars, initVars,
                   fitnessVars, selectVars, crossVars, mutateVars, runVars>>

SeedNext == Next \/ SecondCall

SpecSeed == GaInit /\ [][SeedNext]_vars

(***************************************************************************)
(* The evolution loop over several generations and larger populations      *)
(* (specification SpecLoop): generate_timetable on the one-class school,   *)
(* whose chromosomes have LESSONS_PER_DAY * len(DAYS) cells.               *)
(***************************************************************************)

\* config["population_size"] ranges over 1..LoopPopulation.
LoopPopulation == 3

\* config["generations"] ranges over 0..LoopGenerations.
LoopGenerations == 2

\* A run breeds at most MaxBred individuals:
\* population_size * generations <= MaxBred.
MaxBred == 6

LoopPayload ==
    [keys |-> DATASET_KEYS,
     subjects |-> <<[id |-> 1, name |-> "Math"], [id |-> 2, name |-> "Art"]>>,
     teachers |-> <<[id |-> 1, name |-> "Ivanov", subjects |-> {1}]>>,
     classes |-> <<[id |-> 1, name |-> CLASS_NAMES[1]]>>]

LoopInit ==
    /\ pc = "start"
    /\ payload = LoopPayload
    /\ config \in [population_size : 1..LoopPopulation, generations : 0..LoopGenerations,
                    seed : SEEDS]
    /\ config.population_size * config.generations <= MaxBred
    /\ population = <<>>
    /\ next_population = <<>>
    /\ generation = 0
    /\ best_schedule = None
    /\ best_fitness = 0
    /\ best_generation = 0
    /\ child1 = None
    /\ child2 = None
    /\ result = None
    /\ error = "none"
    /\ CompactIdle
    /\ InitIdle
    /\ SeedIdle
    /\ FitnessIdle
    /\ SelectIdle
    /\ CrossIdle
    /\ OthersIdle

SpecLoop == LoopInit /\ [][Next]_vars

(***************************************************************************)
(* The fitness functions as functions of the schedule (specification       *)
(* SpecFitness): a schedule is drawn from every dense schedule of a shape, *)
(* double bookings and wrong-subject cells included, it is scored, then    *)
(* one of its cells is changed and the neighbour is scored.                *)
(***************************************************************************)

\* The teachers of the scored schedules: teacher 1 teaches subject 1,
\* teacher 2 teaches nothing.
FitnessTeachers == <<[id |-> 1, subjects |-> {1}], [id |-> 2, subjects |-> {}]>>

FitnessCells == {None, <<1, 1>>, <<2, 1>>}

FitnessShapes ==
    { [days |-> <<1>>, lessons_per_day |-> 3, classes |-> <<1, 2, 3>>],
      [days |-> <<1, 2>>, lessons_per_day |-> 2, classes |-> <<1, 2>>] }

\* The metrics of fitness_metrics.py and the two scores, for the shape sh.
Metrics(schedule, sh) ==
    [ teacher_conflicts |->
          count_teacher_conflicts(schedule, TeachersById(FitnessTeachers), sh.days,
                                  sh.lessons_per_day),
      teacher_gaps |->
          count_teacher_gaps(schedule, FitnessTeachers, sh.days, sh.lessons_per_day),
      class_gaps |-> count_class_gaps(schedule, sh.classes, sh.days, sh.lessons_per_day),
      early_gaps |-> count_early_gaps(schedule, sh.classes, sh.days, sh.lessons_per_day),
      daily_imbalance |->
          calculate_daily_imbalance(schedule, sh.classes, sh.days, sh.lessons_per_day),
      total_lessons |-> count_total_lessons(schedule, sh.days, sh.lessons_per_day),
      min_daily_deficit |->
          count_min_daily_lessons_deficit(schedule, sh.classes, sh.days,
                                          sh.lessons_per_day, MIN_LESSONS_PER_DAY),
      score |->
          calculate_schedule_fitness(schedule, sh.days, sh.lessons_per_day,
                                     FitnessTeachers, sh.classes,
                                     TeachersById(FitnessTeachers)),
      legacy_score |->
          legacy_calculate_fitness(schedule, sh.days, sh.lessons_per_day,
                                   FitnessTeachers, sh.classes,
                                   TeachersById(FitnessTeachers)) ]

FitnessInit ==
    /\ fpc = "input"
    /\ fshape \in FitnessShapes
    /\ fone \in [Range(fshape.days) ->
                    [1..fshape.lessons_per_day -> [Range(fshape.classes) -> FitnessCells]]]
    /\ ftwo = <<>>
    /\ fm1 = <<>>
    /\ fm2 = <<>>
    /\ CompactIdle
    /\ InitIdle
    /\ GaIdle
    /\ SeedIdle
    /\ SelectIdle
    /\ CrossIdle
    /\ OthersIdle

\* calculate_fitness(schedule)
ScoreFirst ==
    /\ fpc = "input"
    /\ fm1' = Metrics(fone, fshape)
    /\ fpc' = "one"
    /\ UNCHANGED <<fshape, fone, ftwo, fm2, fitnessOthers>>

\* calculate_fitness of the schedule with one cell changed.
ScoreNeighbour ==
    /\ fpc = "one"
    /\ \E day \in Range(fshape.days), lesson \in 1..fshape.lessons_per_day,
          class_id \in Range(fshape.classes), cell \in FitnessCells :
          /\ cell # fone[day][lesson][class_id]
          /\ ftwo' = SetCell(fone, day, lesson, class_id, cell)
          /\ fm2' = Metrics(SetCell(fone, day, lesson, class_id, cell), fshape)
    /\ fpc' = "two"
    /\ UNCHANGED <<fshape, fone, fm1, fitnessOthers>>

FitnessNext == ScoreFirst \/ ScoreNeighbour

SpecFitness == FitnessInit /\ [][FitnessNext]_vars

(***************************************************************************)
(* One call of GeneticScheduler.selection (specification SpecSelect): the  *)
(* population and TOURNAMENT_SIZE are drawn, the sample is taken, and the  *)
(* maximum is returned.                                                    *)
(***************************************************************************)

\* The longest population passed to selection.
MaxContestants == 4

\* The schedules of one class the individuals hold: no lesson, one lesson on
\* the first day, one lesson on the last day.
SelectSchedules ==
    LET empty == [d \in Range(DAYS) |-> [l \in 1..LESSONS_PER_DAY |-> [c \in {1} |-> None]]]
    IN { empty, SetCell(empty, DAYS[1], 1, 1, <<1, 1>>),
         SetCell(empty, DAYS[Len(DAYS)], 1, 1, <<1, 1>>) }

\* The fitness values of the individuals, in thousandths of a point.
SelectFitness == {840500, 1000000}

\* self.TOURNAMENT_SIZE: the default, or config["tournament_size"].
TournamentSizes == {2, 3, TOURNAMENT_SIZE}

SelectInit ==
    /\ spc = "call"
    /\ contestants \in UNION { [1..n -> SelectSchedules \X SelectFitness] :
                                n \in 0..MaxContestants }
    /\ tournament_size \in TournamentSizes
    /\ tournament = <<>>
    /\ winner = None
    /\ CompactIdle
    /\ InitIdle
    /\ GaIdle
    /\ SeedIdle
    /\ FitnessIdle
    /\ CrossIdle
    /\ OthersIdle

\* Lines 86-88: tournament = random.sample(population, min(...)).
TakeSample ==
    /\ spc = "call"
    /\ tournament' \in TournamentSamples(contestants, tournament_size)
    /\ spc' = "sampled"
    /\ UNCHANGED <<contestants, tournament_size, winner, selectOthers>>

\* Line 89: max(tournament, key=lambda x: x[1])[0]; max of an empty sample
\* raises ValueError.
ReturnMax ==
    /\ spc = "sampled"
    /\ IF tournament = <<>>
       THEN /\ spc' = "raised"
            /\ winner' = winner
       ELSE /\ spc' = "returned"
            /\ winner' = <<TournamentMax(contestants, tournament)[1]>>
    /\ UNCHANGED <<contestants, tournament_size, tournament, selectOthers>>

SelectNext == TakeSample \/ ReturnMax

SpecSelect == SelectInit /\ [][SelectNext]_vars

(***************************************************************************)
(* One call of GeneticScheduler.crossover on schedules held as objects     *)
(* (specification SpecCross).  A schedule is a dict of day dicts of lesson *)
(* dicts; the heap maps an address to a dict, whose items are addresses    *)
(* (schedule and day dicts) or assignments (lesson dicts).  parent1 and    *)
(* parent2 may be one object, as when selection returns the same           *)
(* individual twice.                                                       *)
(***************************************************************************)

\* The dicts reachable from the schedule at address a, a included.
Reach(h, a) ==
    LET day_dicts == {h[a][d] : d \in DOMAIN h[a]}
    IN {a} \cup day_dicts \cup UNION { {h[b][l] : l \in DOMAIN h[b]} : b \in day_dicts }

\* The contents of the schedule at address a.
Value(h, a) ==
    [d \in DOMAIN h[a] |-> [l \in DOMAIN h[h[a][d]] |-> h[h[h[a][d]][l]]]]

\* The dict at address b of a schedule whose dicts are moved by new: the
\* items of a lesson dict are assignments (immutable tuples or None) and are
\* kept, the items of the other dicts are addresses.
CopyDict(h, b, lesson_dicts, new) ==
    IF b \in lesson_dicts THEN h[b] ELSE [key \in DOMAIN h[b] |-> new[h[b][key]]]

\* copy.copy(schedule): a new outer dict with the same day dicts.
ShallowCopy(h, a) ==
    [heap |-> Append(h, h[a]), root |-> Len(h) + 1]

\* copy.deepcopy(schedule): every dict reachable from a is copied once to a
\* new address and the copies refer to copies.
DeepCopy(h, a) ==
    LET reached == Reach(h, a)
        day_dicts == {h[a][d] : d \in DOMAIN h[a]}
        lesson_dicts == reached \ ({a} \cup day_dicts)
        new == [b \in reached |-> Len(h) + Cardinality({x \in reached : x <= b})]
        old == [i \in (Len(h) + 1)..(Len(h) + Cardinality(reached)) |->
                   CHOOSE b \in reached : new[b] = i]
    IN [heap |-> [i \in 1..(Len(h) + Cardinality(reached)) |->
                     IF i <= Len(h) THEN h[i]
                     ELSE CopyDict(h, old[i], lesson_dicts, new)],
        root |-> new[a]]

\* The exchange done one way only: child1 receives the days of child2.
RECURSIVE TakeDaysFrom(_, _, _, _, _)
TakeDaysFrom(h, c1, c2, days, i) ==
    IF i >= Len(days) THEN h
    ELSE LET day == days[i + 1]
         IN TakeDaysFrom([h EXCEPT ![c1][day] = h[c2][day]], c1, c2, days, i + 1)

\* Lines 101-103, for i from the (0-based) index i on:
\* child1[day], child2[day] = child2[day], child1[day].
RECURSIVE SwapDaysFrom(_, _, _, _, _)
SwapDaysFrom(h, c1, c2, days, i) ==
    IF i >= Len(days) THEN h
    ELSE LET day == days[i + 1]
         IN SwapDaysFrom([h EXCEPT ![c1][day] = h[c2][day], ![c2][day] = h[c1][day]],
                         c1, c2, days, i + 1)

\* The schedules that crossover is called with: one class, or two classes
\* with double bookings and unqualified cells.
CrossShapes ==
    { [days |-> <<1, 2>>, lessons_per_day |-> 2, classes |-> <<1>>,
       cells |-> {None, <<1, 1>>}],
      [days |-> <<1, 2, 3>>, lessons_per_day |-> 2, classes |-> <<1>>,
       cells |-> {None, <<1, 1>>}],
      [days |-> <<1, 2>>, lessons_per_day |-> 1, classes |-> <<1, 2>>,
       cells |-> {None, <<1, 1>>, <<1, 2>>}] }

\* The teachers the cells of CrossShapes refer to: teacher 1 is qualified for
\* subject 1 only.
CrossTeachers == <<[id |-> 1, subjects |-> {1}]>>

CrossSchedules(sh) ==
    [Range(sh.days) -> [1..sh.lessons_per_day -> [Range(sh.classes) -> sh.cells]]]

\* The dicts of the schedule with contents value, laid out from address
\* base + 1: the schedule dict, its day dicts, then their lesson dicts.
Objects(value, sh, base) ==
    LET nd == Len(sh.days)
        nl == sh.lessons_per_day
    IN [i \in 1..(1 + nd + nd * nl) |->
          IF i = 1 THEN [d \in Range(sh.days) |-> base + 1 + d]
          ELSE IF i <= 1 + nd
               THEN [l \in 1..nl |-> base + 1 + nd + (i - 2) * nl + l]
               ELSE value[((i - 2 - nd) \div nl) + 1][((i - 2 - nd) % nl) + 1]]

CrossInit ==
    /\ xpc = "call"
    /\ \E sh \in CrossShapes :
          /\ xdays = sh.days
          /\ \E v1 \in CrossSchedules(sh) :
                \/ \E v2 \in CrossSchedules(sh) :
                      /\ heap = Objects(v1, sh, 0)
                                \o Objects(v2, sh, Len(Objects(v1, sh, 0)))
                      /\ xparent1 = 1
                      /\ xparent2 = Len(Objects(v1, sh, 0)) + 1
                \/ /\ heap = Objects(v1, sh, 0)
                   /\ xparent1 = 1
                   /\ xparent2 = 1
    /\ xchild1 = 0
    /\ xchild2 = 0
    /\ xpoint = 0
    /\ CompactIdle
    /\ InitIdle
    /\ GaIdle
    /\ SeedIdle
    /\ FitnessIdle
    /\ SelectIdle
    /\ OthersIdle

\* crossover(parent1, parent2), lines 95-105.
CrossoverCall ==
    /\ xpc = "call"
    /\ \E crossover_point \in 1..(Len(xdays) - 1) :
          LET copy1 == DeepCopy(heap, xparent1)
              copy2 == DeepCopy(copy1.heap, xparent2)
          IN /\ heap' = SwapDaysFrom(copy2.heap, copy1.root, copy2.root, xdays,
                                     crossover_point)
             /\ xchild1' = copy1.root
             /\ xchild2' = copy2.root
             /\ xpoint' = crossover_point
    /\ xpc' = "returned"
    /\ UNCHANGED <<xdays, xparent1, xparent2, crossOthers>>

CrossNext == CrossoverCall

SpecCross == CrossInit /\ [][CrossNext]_vars

(***************************************************************************)
(* The job API (specification SpecRun): POST /timetables/generate creates  *)
(* a run and queues run_generation as a background task; the task moves    *)
(* the run through its statuses, one step per database commit;             *)
(* GET /timetables/runs/{run_id}/result reads the result.  The database    *)
(* commits succeed; the engine returns a payload or raises.                *)
(***************************************************************************)

\* The most runs created.
MaxRuns == 2

\* class GenerationStatus
GenerationStatus == {"queued", "running", "done", "failed"}

\* The ids of the rows of table datasets.
DATASET_IDS == {1}

\* dataset_id of a GenerationRequest: absent, an existing id, a missing id.
REQUESTED_DATASETS == {None, <<1>>, <<2>>}

\* What generate_timetable can return: result payloads (in part).
RESULT_PAYLOADS ==
    { [fitness_score |-> 68200, generation |-> 0],
      [fitness_score |-> 68000, generation |-> 1] }

\* str(exc) of what generate_timetable can raise: the ValueError of
\* DictDataService, the IndexError of random.choice, the KeyError of a
\* schedule without its day keys.
ENGINE_ERRORS ==
    { "Dataset payload must include 'subjects', 'teachers', and 'classes'.",
      "Cannot choose from an empty sequence",
      "'Monday'" }

\* A failure recorded without text.
NoMessage(exc) == ""

\* run.error_message = str(exc)
ErrorMessage(exc) == exc

\* Every status answered with the stored result.
AlwaysReady(run) == TRUE

\* The negation of run.status != GenerationStatus.done in get_run_result.
ResultReady(run) == run.status = "done"

\* select(TimetableResult).where(TimetableResult.run_id == run_id): the
\* rows found, in table order.
ResultsOf(run_id) == SelectSeq(results, LAMBDA row : row.run_id = run_id)

RunInit ==
    /\ runs = <<>>
    /\ results = <<>>
    /\ tasks = <<>>
    /\ response = None
    /\ CompactIdle
    /\ InitIdle
    /\ GaIdle
    /\ SeedIdle
    /\ FitnessIdle
    /\ SelectIdle
    /\ CrossIdle
    /\ MutateIdle

\* POST /timetables/generate: start_generation, then add_task; a dataset id
\* that is not found answers 404 and creates nothing.
PostGenerate ==
    /\ Len(runs) < MaxRuns
    /\ \E dataset_id \in REQUESTED_DATASETS :
          IF dataset_id # None /\ dataset_id[1] \notin DATASET_IDS
          THEN /\ response' = [code |-> 404, body |-> <<"Dataset not found", dataset_id[1]>>]
               /\ UNCHANGED <<runs, tasks>>
          ELSE /\ runs' = Append(runs, [status |-> "queued", progress |-> 0,
                                        error_message |-> None, started |-> FALSE,
                                        finished |-> FALSE,
                                        dataset_id |-> IF dataset_id = None
                                                       THEN Max(DATASET_IDS)
                                                       ELSE dataset_id[1]])
               /\ tasks' = Append(tasks, [at |-> "queued", result_payload |-> None])
               /\ response' = [code |-> 202,
                               body |-> <<"run", Len(runs) + 1, "queued">>]
    /\ UNCHANGED <<results, runOthers>>

\* run_generation, lines 51-60: the run is read, marked running and
\* committed.
MarkRunning(run_id) ==
    /\ run_id \in 1..Len(runs)
    /\ tasks[run_id].at = "queued"
    /\ runs' = [runs EXCEPT ![run_id].status = "running", ![run_id].progress = 5,
                             ![run_id].started = TRUE]
    /\ tasks' = [tasks EXCEPT ![run_id].at = "engine"]
    /\ UNCHANGED <<results, response, runOthers>>

\* Lines 62-76: generate_timetable returns; progress 90 is committed.
EngineReturns(run_id) ==
    /\ run_id \in 1..Len(runs)
    /\ tasks[run_id].at = "engine"
    /\ \E result_payload \in RESULT_PAYLOADS :
          tasks' = [tasks EXCEPT ![run_id] = [at |-> "store",
                                              result_payload |-> <<result_payload>>]]
    /\ runs' = [runs EXCEPT ![run_id].progress = 90]
    /\ UNCHANGED <<results, response, runOthers>>

\* Lines 92-102: generate_timetable raises; the handler reads the run again
\* and commits failed with str(exc).
EngineRaises(run_id) ==
    /\ run_id \in 1..Len(runs)
    /\ tasks[run_id].at = "engine"
    /\ \E exc \in ENGINE_ERRORS :
          runs' = [runs EXCEPT ![run_id].status = "failed",
                               ![run_id].error_message = <<ErrorMessage(exc)>>,
                               ![run_id].finished = TRUE]
    /\ tasks' = [tasks EXCEPT ![run_id].at = "returned"]
    /\ UNCHANGED <<results, response, runOthers>>

\* Lines 78-85: the TimetableResult row and status done in one commit.
StoreResult(run_id) ==
    /\ run_id \in 1..Len(runs)
    /\ tasks[run_id].at = "store"
    /\ results' = Append(results, [run_id |-> run_id,
                                    payload |-> tasks[run_id].result_payload[1]])
    /\ runs' = [runs EXCEPT ![run_id].status = "done", ![run_id].progress = 100,
                             ![run_id].finished = TRUE]
    /\ tasks' = [tasks EXCEPT ![run_id].at = "returned"]
    /\ UNCHANGED <<response, runOthers>>

\* GET /timetables/runs/{run_id}/result
GetRunResult(run_id) ==
    /\ response' =
          IF run_id \notin 1..Len(runs)
          THEN [code |-> 404, body |-> <<"Run not found.">>]
          ELSE IF ~ResultReady(runs[run_id])
               THEN [code |-> 409,
                     body |-> IF runs[run_id].status # "failed"
                              THEN <<"Result not ready.", runs[run_id].status>>
                              ELSE <<"Run failed",
                                     IF runs[run_id].error_message \in {None, <<"">>}
                                     THEN "unknown error"
                                     ELSE runs[run_id].error_message[1]>>]
               ELSE IF ResultsOf(run_id) = <<>>
                    THEN [code |-> 404, body |-> <<"Result not found.">>]
                    ELSE [code |-> 200, body |-> <<ResultsOf(run_id)[1].payload>>]
    /\ UNCHANGED <<runs, results, tasks, runOthers>>

\* The steps of the background task of one run.
RunGeneration(run_id) ==
    \/ MarkRunning(run_id)
    \/ EngineReturns(run_id)
    \/ EngineRaises(run_id)
    \/ StoreResult(run_id)

RunNext ==
    \/ PostGenerate
    \/ \E run_id \in 1..MaxRuns : RunGeneration(run_id)
    \/ \E run_id \in 1..MaxRuns : GetRunResult(run_id)

\* A queued background task is run to its end.
SpecRun ==
    /\ RunInit
    /\ [][RunNext]_vars
    /\ \A run_id \in 1..MaxRuns : WF_vars(RunGeneration(run_id))

(***************************************************************************)
(* compact_mutation on its own (specification SpecMutate): one call on a   *)
(* dense schedule, double bookings included.                               *)
(***************************************************************************)

\* The arguments days, lessons_per_day and classes of the call.
MutateShapes ==
    { [days |-> <<1, 2>>, lessons_per_day |-> 3, classes |-> <<1, 2>>],
      [days |-> <<1, 2>>, lessons_per_day |-> 2, classes |-> <<1, 2, 3>>],
      [days |-> <<1, 2>>, lessons_per_day |-> 2, classes |-> <<1>>] }

MutateCells == {None, <<1, 1>>, <<1, 2>>, <<2, 1>>}

\* The layouts of the second day: empty; every class with teacher 1 in the
\* last slot only; the first class with a gap before teacher 2.
MutateSecondDays(sh) ==
    { [l \in 1..sh.lessons_per_day |-> [c \in Range(sh.classes) |-> None]],
      [l \in 1..sh.lessons_per_day |-> [c \in Range(sh.classes) |->
          IF l = sh.lessons_per_day THEN <<1, 1>> ELSE None]],
      [l \in 1..sh.lessons_per_day |-> [c \in Range(sh.classes) |->
          IF l = sh.lessons_per_day /\ c = sh.classes[1] THEN <<2, 1>> ELSE None]] }

MutateSchedules(sh) ==
    { [d \in Range(sh.days) |-> IF d = sh.days[1] THEN first ELSE second] :
      first \in [1..sh.lessons_per_day -> [Range(sh.classes) -> MutateCells]],
      second \in MutateSecondDays(sh) }

MutateInit ==
    /\ mpc = "input"
    /\ mshape \in MutateShapes
    /\ minput \in MutateSchedules(mshape)
    /\ moutput = <<>>
    /\ CompactIdle
    /\ InitIdle
    /\ GaIdle
    /\ SeedIdle
    /\ FitnessIdle
    /\ SelectIdle
    /\ CrossIdle
    /\ RunIdle

\* mutated = compact_mutation(schedule, days, lessons_per_day, classes)
MutateCall ==
    /\ mpc = "input"
    /\ ~CompactMutationRaises(mshape.days, mshape.classes)
    /\ moutput' \in compact_mutation(minput, mshape.days, mshape.lessons_per_day,
                                     mshape.classes)
    /\ mpc' = "done"
    /\ UNCHANGED <<mshape, minput, mutateOthers>>

\* random.randint(2, min(5, len(classes))) raises ValueError, line 18.
MutateRaises ==
    /\ mpc = "input"
    /\ CompactMutationRaises(mshape.days, mshape.classes)
    /\ mpc' = "raised"
    /\ UNCHANGED <<mshape, minput, moutput, mutateOthers>>

MutateNext == MutateCall \/ MutateRaises

SpecMutate == MutateInit /\ [][MutateNext]_vars

(***************************************************************************)
(* Properties of compact_schedule_full (specification SpecCompact).        *)
(***************************************************************************)

ShapeCells == Range(shape.days) \X (1..shape.lessons_per_day)
ShapeClassDays == Range(shape.classes) \X Range(shape.days)

\* The slots a class occupies on a day.
OccupiedSlots(schedule, day, class_id, lessons_per_day) ==
    {l \in 1..lessons_per_day : GetCell(schedule, day, l, class_id) # None}

IsPrefix(schedule, day, class_id, lessons_per_day) ==
    LET occ == OccupiedSlots(schedule, day, class_id, lessons_per_day)
    IN occ = 1..Cardinality(occ)

\* The column of a class on a day, slot by slot.
Layout(schedule, day, class_id, lessons_per_day) ==
    [l \in 1..lessons_per_day |-> GetCell(schedule, day, l, class_id)]

\* Double-booked teacher occurrences of one (day, slot): cells beyond the
\* first of each teacher.
DoubleBooked(schedule, day, lesson) ==
    LET slot == schedule[day][lesson]
        full == {c \in DOMAIN slot : slot[c] # None}
    IN Cardinality(full) - Cardinality({slot[c][1] : c \in full})

\* How often a class holds an assignment on a day.
LessonCount(schedule, day, class_id, lessons_per_day, assignment) ==
    Cardinality({l \in 1..lessons_per_day :
                    GetCell(schedule, day, l, class_id) = assignment})

SameLessons(before, after) ==
    \A cd \in ShapeClassDays : \A a \in CompactCells :
        LessonCount(after, cd[2], cd[1], shape.lessons_per_day, a)
            = LessonCount(before, cd[2], cd[1], shape.lessons_per_day, a)

NoNewConflicts(before, after) ==
    /\ \A c \in ShapeCells :
          DoubleBooked(after, c[1], c[2]) <= DoubleBooked(before, c[1], c[2])
    /\ count_teacher_conflicts(after, CompactTeachersById, shape.days,
                               shape.lessons_per_day)
         <= count_teacher_conflicts(before, CompactTeachersById, shape.days,
                                    shape.lessons_per_day)

\* Neither order of try_compact_placement places every lesson of the class-day.
NoPlacement(schedule, day, class_id, lessons_per_day) ==
    BestPlacement(ClearClassDay(schedule, day, class_id, lessons_per_day), day,
                  class_id, LessonsData(schedule, day, class_id, lessons_per_day),
                  lessons_per_day) = <<>>

\* Another class holds, somewhere on the day, a teacher of this class-day.
SharesTeacher(schedule, day, class_id, lessons_per_day) ==
    \E l1 \in 1..lessons_per_day, l2 \in 1..lessons_per_day :
      \E other \in Range(shape.classes) \ {class_id} :
        /\ GetCell(schedule, day, l1, class_id) # None
        /\ GetCell(schedule, day, l2, other) # None
        /\ GetCell(schedule, day, l1, class_id)[1] = GetCell(schedule, day, l2, other)[1]

\* C1: compact_schedule_full never introduces a teacher conflict: in every
\* (day, slot) the double-booked occurrences do not grow, and
\* count_teacher_conflicts of the result is at most that of the argument.
C1_NoNewTeacherConflicts ==
    /\ cpc \in {"once", "twice"} => NoNewConflicts(input, once)
    /\ cpc = "twice" => NoNewConflicts(once, twice)

\* A double-booked schedule was compacted and changed by it.
C1_Witness ==
    /\ cpc = "once"
    /\ once # input
    /\ \E c \in ShapeCells : DoubleBooked(input, c[1], c[2]) > 0
    /\ \E c \in ShapeCells : DoubleBooked(once, c[1], c[2]) > 0

\* C2: compact_schedule_full never drops lessons: every class holds on every
\* day the same multiset of assignments before and after the call.
C2_LessonsPreserved ==
    /\ cpc \in {"once", "twice"} => SameLessons(input, once)
    /\ cpc = "twice" => SameLessons(once, twice)

\* One class-day was re-placed and another had its original layout restored.
C2_Witness ==
    /\ cpc = "once"
    /\ once # input
    /\ \E cd \in ShapeClassDays :
          /\ OccupiedSlots(once, cd[2], cd[1], shape.lessons_per_day) # {}
          /\ ~IsPrefix(once, cd[2], cd[1], shape.lessons_per_day)
          /\ NoPlacement(once, cd[2], cd[1], shape.lessons_per_day)

\* C3 as claimed: after the call every class-day is the prefix 1..k, or no
\* placement succeeds and the class-day has its original layout.
C3_PrefixOrRestored ==
    cpc = "once" =>
        \A cd \in ShapeClassDays :
            \/ IsPrefix(once, cd[2], cd[1], shape.lessons_per_day)
            \/ /\ NoPlacement(once, cd[2], cd[1], shape.lessons_per_day)
               /\ Layout(once, cd[2], cd[1], shape.lessons_per_day)
                    = Layout(input, cd[2], cd[1], shape.lessons_per_day)

\* C3 as amended: after the call every class-day is the prefix 1..k, or
\* another class holds one of its teachers on that day (the greedy placement
\* skipped a slot, or failed and the original layout was written back).
C3_PrefixOrTeacherShared ==
    cpc \in {"once", "twice"} =>
        \A cd \in ShapeClassDays :
            \/ IsPrefix(once, cd[2], cd[1], shape.lessons_per_day)
            \/ SharesTeacher(once, cd[2], cd[1], shape.lessons_per_day)

\* A class-day that the call moved and that is neither a prefix nor its
\* original layout: a placement that skipped a slot.
C3_Witness ==
    /\ cpc = "once"
    /\ \E cd \in ShapeClassDays :
          /\ ~IsPrefix(once, cd[2], cd[1], shape.lessons_per_day)
          /\ Layout(once, cd[2], cd[1], shape.lessons_per_day)
               # Layout(input, cd[2], cd[1], shape.lessons_per_day)

\* C4 as claimed: compact_schedule_full is idempotent, cell for cell.
C4_Idempotent == cpc = "twice" => twice = once

\* C4 as amended: a second call leaves every class-day that the first call
\* left as a prefix 1..k unchanged, so the two results are equal whenever
\* the first one has only prefix class-days.
C4_PrefixClassDaysFixed ==
    cpc = "twice" =>
        /\ \A cd \in ShapeClassDays :
              IsPrefix(once, cd[2], cd[1], shape.lessons_per_day)
                => Layout(twice, cd[2], cd[1], shape.lessons_per_day)
                     = Layout(once, cd[2], cd[1], shape.lessons_per_day)
        /\ (\A cd \in ShapeClassDays :
              IsPrefix(once, cd[2], cd[1], shape.lessons_per_day)) => twice = once

\* The second call changed the schedule and left alone a class-day that the
\* first call had left as a non-empty prefix.
C4_Witness ==
    /\ cpc = "twice"
    /\ twice # once
    /\ \E cd \in ShapeClassDays :
          /\ IsPrefix(once, cd[2], cd[1], shape.lessons_per_day)
          /\ GetCell(once, cd[2], 1, cd[1]) # None

\* In the schedule no other class holds, at slots 1..k of the day, a teacher
\* of the k lessons of the class on that day.
TeachersFreeInPrefix(schedule, day, class_id, lessons_per_day) ==
    LET occ == OccupiedSlots(schedule, day, class_id, lessons_per_day)
    IN \A l1 \in occ, l2 \in 1..Cardinality(occ) :
         \A other \in Range(shape.classes) \ {class_id} :
             GetCell(schedule, day, l2, other) = None
             \/ GetCell(schedule, day, l2, other)[1]
                    # GetCell(schedule, day, l1, class_id)[1]

\* C20: a class whose k lessons of a day are not at slots 1..k in the
\* argument, none of their teachers being held by another class at slots
\* 1..k of that day in the argument, occupies exactly slots 1..k of that day
\* after compact_schedule_full.
C20_FreePrefixCompacted ==
    cpc = "once" =>
        \A cd \in ShapeClassDays :
            (/\ ~IsPrefix(input, cd[2], cd[1], shape.lessons_per_day)
             /\ TeachersFreeInPrefix(input, cd[2], cd[1], shape.lessons_per_day))
                => IsPrefix(once, cd[2], cd[1], shape.lessons_per_day)

\* Every other class that holds, somewhere on the day, a teacher of this
\* class-day already occupies a prefix 1..m of the day.
SharersArePrefixes(schedule, day, class_id, lessons_per_day) ==
    \A other \in Range(shape.classes) \ {class_id} :
        (\E l1 \in 1..lessons_per_day, l2 \in 1..lessons_per_day :
            /\ GetCell(schedule, day, l1, class_id) # None
            /\ GetCell(schedule, day, l2, other) # None
            /\ GetCell(schedule, day, l1, class_id)[1]
                  = GetCell(schedule, day, l2, other)[1])
        => IsPrefix(schedule, day, other, lessons_per_day)

\* C20, amended: a class whose k lessons of a day are not at slots 1..k in
\* the argument occupies exactly slots 1..k of that day after
\* compact_schedule_full when, in the argument, no other class holds a
\* teacher of those lessons at slots 1..k of the day and every other class
\* holding such a teacher anywhere on the day is already at a prefix of
\* slots (so that compaction does not move it).
C20_FreePrefixStableSharers ==
    cpc = "once" =>
        \A cd \in ShapeClassDays :
            (/\ ~IsPrefix(input, cd[2], cd[1], shape.lessons_per_day)
             /\ TeachersFreeInPrefix(input, cd[2], cd[1], shape.lessons_per_day)
             /\ SharersArePrefixes(input, cd[2], cd[1], shape.lessons_per_day))
                => IsPrefix(once, cd[2], cd[1], shape.lessons_per_day)

\* A class-day with a gap was moved to a prefix while another class, already
\* at a prefix, holds one of its teachers later on the day.
C20_Witness ==
    /\ cpc = "once"
    /\ \E cd \in ShapeClassDays :
          /\ ~IsPrefix(input, cd[2], cd[1], shape.lessons_per_day)
          /\ TeachersFreeInPrefix(input, cd[2], cd[1], shape.lessons_per_day)
          /\ SharersArePrefixes(input, cd[2], cd[1], shape.lessons_per_day)
          /\ SharesTeacher(input, cd[2], cd[1], shape.lessons_per_day)
          /\ IsPrefix(once, cd[2], cd[1], shape.lessons_per_day)
          /\ Cardinality(OccupiedSlots(once, cd[2], cd[1], shape.lessons_per_day)) >= 2

(***************************************************************************)
(* Properties of the initialisers (specification SpecInit).                *)
(***************************************************************************)

\* Both hard constraints on the slots built so far: no teacher twice in a slot,
\* every assignment within its teacher's subjects.
HardConstraintsHold(schedule, teachers_by_id) ==
    \A d \in DOMAIN schedule : \A l \in DOMAIN schedule[d] :
        /\ DoubleBooked(schedule, d, l) = 0
        /\ \A c \in DOMAIN schedule[d][l] :
              schedule[d][l][c] # None =>
                  schedule[d][l][c][2] \in teachers_by_id[schedule[d][l][c][1]].subjects

\* C5: every schedule of both initialisers satisfies both hard constraints,
\* during and after the random pass and the minimum-fill pass, so that
\* count_teacher_conflicts of a finished individual is 0.
C5_InitialIndividualsConflictFree ==
    /\ ipc \in {"random", "minfill", "done"} =>
          HardConstraintsHold(ist.schedule, TeachersById(idata.teachers))
    /\ ipc = "done" =>
          count_teacher_conflicts(ist.schedule, TeachersById(idata.teachers),
                                  idata.days, idata.lessons_per_day) = 0

\* A finished individual in which the filter mattered: a slot holds a lesson
\* and leaves another class empty because every teacher is booked there.
C5_Witness ==
    /\ ipc = "done"
    /\ \E d \in DOMAIN ist.schedule : \E l \in DOMAIN ist.schedule[d] :
          /\ \E c \in DOMAIN ist.schedule[d][l] : ist.schedule[d][l][c] = None
          /\ \E c \in DOMAIN ist.schedule[d][l] : ist.schedule[d][l][c] # None
          /\ FreeAssignments(idata.subjects, InitTbs,
                             TeachersInSlot(ist.schedule[d][l])) = {}

\* The class has no lesson in the slot and a teacher qualified for some
\* subject is not booked there.
FeasibleSlot(schedule, day, lesson, class_id) ==
    /\ schedule[day][lesson][class_id] = None
    /\ FreeAssignments(idata.subjects, InitTbs, TeachersInSlot(schedule[day][lesson])) # {}

\* C19: in a finished individual of either initialiser a (class, day) has
\* fewer than MIN_FILL lessons only if no slot of the day admits a qualified
\* teacher who is not already booked there.
C19_MinimumFillReached ==
    ipc = "done" =>
        \A i \in 1..Len(idata.classes) : \A d \in Range(idata.days) :
            DayCount(ist.schedule, d, idata.classes[i], idata.lessons_per_day) < MIN_FILL
                => \A l \in 1..idata.lessons_per_day :
                       ~FeasibleSlot(ist.schedule, d, l, idata.classes[i])

(***************************************************************************)
(* Properties of generate_timetable (specification Spec).                  *)
(***************************************************************************)

\* The schedule handed back by generate_schedule, once it has returned.
Returned == best_schedule[1]

\* Every (day, slot, class_id) key of the grid exists in the schedule.
Dense(schedule) ==
    \A day \in Range(DAYS) :
        /\ day \in DOMAIN schedule
        /\ \A lesson \in 1..LESSONS_PER_DAY :
            /\ lesson \in DOMAIN schedule[day]
            /\ \A class_id \in Range(GaClassIds) :
                class_id \in DOMAIN schedule[day][lesson]

\* Every (day, lesson, class_name) triple appears in the result payload.
PayloadComplete ==
    \A day \in Range(DAYS), lesson \in 1..LESSONS_PER_DAY :
        \A i \in 1..Len(payload.classes) :
            payload.classes[i].name \in DOMAIN result.schedule[day][str(lesson)]

\* The three lists are present and none of them is empty.
NonEmptyDataset ==
    /\ DATASET_KEYS \subseteq payload.keys
    /\ payload.subjects # <<>>
    /\ payload.teachers # <<>>
    /\ payload.classes # <<>>

\* The three lists are present and one of them is empty.
EmptyList ==
    /\ DATASET_KEYS \subseteq payload.keys
    /\ payload.subjects = <<>> \/ payload.teachers = <<>> \/ payload.classes = <<>>

\* C6 (as stated): whenever generate_schedule has returned, the returned
\* schedule holds every (day, slot, class_id) key, for every POPULATION_SIZE
\* and GENERATIONS, and the result payload built from it holds every (day,
\* lesson, class_name) triple.
C6_ReturnedScheduleDense ==
    /\ pc \in {"returned", "done"} => Dense(Returned)
    /\ pc = "done" => PayloadComplete

\* C7 (as stated): on a dataset with at least one subject, one teacher and
\* one class, and a population of at least one individual, the run never
\* ends in an exception, whatever the random choices.
C7_NeverRaisesOnNonEmptyInput ==
    (NonEmptyDataset /\ config.population_size >= 1) => pc # "raised"

\* C8: when one of the keys subjects, teachers, classes is missing, the run
\* can only be at its start or rejected with ValueError: the data service
\* and the scheduler are never constructed, no population is initialised
\* and no result is produced.
C8_MissingKeyRejected ==
    ~(DATASET_KEYS \subseteq payload.keys) =>
        /\ pc \in {"start", "raised"}
        /\ pc = "raised" => error = "ValueError"
        /\ population = <<>>
        /\ best_schedule = None
        /\ result = None

\* A payload without its classes key (subjects and teachers present and
\* non-empty) has been rejected with ValueError.
C8_Witness ==
    /\ pc = "raised"
    /\ error = "ValueError"
    /\ payload.keys = {"subjects", "teachers"}
    /\ payload.subjects # <<>>
    /\ payload.teachers # <<>>

\* C9 (as stated): when one of the three lists is present but empty, the
\* run is rejected while the indexes are built: it never initialises a
\* population, enters the evolution loop or returns.
C9_EmptyListRejected ==
    EmptyList => pc \in {"start", "service", "raised"}

\* C10 (as stated): with GENERATIONS = 0 and POPULATION_SIZE >= 1,
\* generate_schedule returns the compaction of a fittest individual of the
\* initial population, the fitness of that compacted schedule, and
\* generation 0.
C10_ZeroGenerationsReturnsBest ==
    (pc = "returned" /\ config.generations = 0 /\ config.population_size >= 1) =>
        \E i \in 1..Len(population) :
            /\ \A j \in 1..Len(population) : population[j][2] <= population[i][2]
            /\ Returned = compact_schedule_full(population[i][1], DAYS,
                                                LESSONS_PER_DAY, GaClassIds)
            /\ best_fitness = calculate_fitness(Returned)
            /\ best_generation = 0

\* C22: whenever generate_schedule has returned, GENERATIONS = 0 included,
\* calculate_fitness can be evaluated again on the returned schedule (it
\* holds every day and lesson key) and gives the returned fitness.
C22_ReturnedFitnessIsOfReturned ==
    pc = "returned" =>
        /\ ~MissingKey(Returned)
        /\ calculate_fitness(Returned) = best_fitness

(***************************************************************************)
(* Properties of two calls with the same seed (specification SpecSeed).    *)
(***************************************************************************)

\* C11 (as stated): when the second of two calls with the same dataset, the
\* same config and the same seed has returned, its payload (schedule,
\* fitness score and generation) is the payload of the first call.
C11_SameSeedSameResult ==
    (pc = "done" /\ first_run # None) => result = first_run[1]

(***************************************************************************)
(* Properties of the evolution loop (specification SpecLoop).              *)
(***************************************************************************)

\* The positions inside the evolution loop.
LoopPcs == {"loop", "offspring", "mutate1", "mutate2", "append"}

\* C12: on every step that stays inside the evolution loop (or leaves it by
\* an exception), best_fitness does not decrease, and the tracked best
\* (schedule, fitness, generation) changes only at the head of a generation
\* whose fittest individual is strictly fitter than best_fitness; it then
\* becomes that individual's schedule and fitness and the current
\* generation.
C12_BestFitnessMonotone ==
    [][ (pc \in LoopPcs /\ pc' \in LoopPcs \cup {"raised"}) =>
          /\ best_fitness' >= best_fitness
          /\ <<best_schedule', best_fitness', best_generation'>>
                 # <<best_schedule, best_fitness, best_generation>> =>
               /\ pc = "loop"
               /\ population # <<>>
               /\ SortByFitness(population)[1][2] > best_fitness
               /\ best_fitness' = SortByFitness(population)[1][2]
               /\ best_schedule' = <<SortByFitness(population)[1][1]>>
               /\ best_generation' = generation ]_vars

\* A later generation has begun whose fittest individual is below the
\* tracked best, which is still the one of generation 0.
C12_Witness ==
    /\ pc = "offspring"
    /\ generation >= 1
    /\ population[1][2] < best_fitness
    /\ best_generation = 0
    /\ best_schedule # None

(***************************************************************************)
(* Properties of the fitness functions (specification SpecFitness).        *)
(* Scores are in thousandths of a point.                                   *)
(***************************************************************************)

\* The score the weighted formula with class gaps at 10, early gaps at 15
\* and the minimum-lessons deficit at 80 gives to the metrics m.
WeightedScore(m) ==
    Max({0, 1000 * 1000 - 100 * 1000 * m.teacher_conflicts - 2 * 1000 * m.teacher_gaps
            - 10 * 1000 * m.class_gaps - 15 * 1000 * m.early_gaps - m.daily_imbalance
            + 500 * m.total_lessons - 80 * 1000 * m.min_daily_deficit})

METRICS ==
    {"teacher_conflicts", "teacher_gaps", "class_gaps", "early_gaps", "daily_imbalance",
     "total_lessons", "min_daily_deficit"}

\* The metrics of m2 are those of m1 except that the metric f is larger by 1.
OnlyLargerByOne(m1, m2, f) ==
    /\ m2[f] = m1[f] + 1
    /\ \A g \in METRICS \ {f} : m2[g] = m1[g]

\* C13: the fitness of every schedule is max(0, 1000 - 100*teacher_conflicts
\* - 2*teacher_gaps - 10*class_gaps - 15*early_gaps - daily_imbalance
\* + 0.5*total_lessons - 80*min_daily_deficit).
C13_FitnessIsWeightedFormula ==
    fpc = "one" => fm1.score = WeightedScore(fm1)

\* C14 as stated: whatever the scores, one more teacher conflict with the
\* other metrics equal costs exactly 100 points, and one more lesson with
\* the other metrics equal earns exactly 0.5 points.
C14_LinearEverywhere ==
    fpc = "two" =>
        /\ OnlyLargerByOne(fm1, fm2, "teacher_conflicts")
               => fm2.score = fm1.score - 100 * 1000
        /\ OnlyLargerByOne(fm1, fm2, "total_lessons")
               => fm2.score = fm1.score + 500

\* C14, amended: one more teacher conflict with the other metrics equal costs
\* exactly 100 points down to the floor of 0 (a score below 100 falls to 0);
\* one more lesson with the other metrics equal earns exactly 0.5 points when
\* the first score is positive, and at most 0.5 points when it is 0.
C14_LinearAboveFloor ==
    fpc = "two" =>
        /\ OnlyLargerByOne(fm1, fm2, "teacher_conflicts")
               => fm2.score = Max({0, fm1.score - 100 * 1000})
        /\ OnlyLargerByOne(fm1, fm2, "total_lessons")
               => /\ fm1.score > 0 => fm2.score = fm1.score + 500
                  /\ fm1.score = 0 => fm2.score \in 0..500

\* A neighbour with one more teacher conflict and the other metrics equal,
\* scored exactly 100 points lower, above the floor.
C14_Witness ==
    /\ fpc = "two"
    /\ OnlyLargerByOne(fm1, fm2, "teacher_conflicts")
    /\ fm2.score > 0
    /\ fm2.score = fm1.score - 100 * 1000

(***************************************************************************)
(* Properties of the generation loop (specification SpecLoop), continued.  *)
(***************************************************************************)

\* Every individual is a schedule paired with its fitness.
Scored(individuals) ==
    \A i \in 1..Len(individuals) :
        individuals[i][2] = calculate_fitness(individuals[i][1])

\* C15: whenever a generation starts (generation 0 after initialisation and
\* every later one after replacement) the population holds exactly
\* POPULATION_SIZE scored individuals; and when the next population has room
\* for one more individual only, the step that appends the offspring appends
\* child1 alone.
C15_PopulationSizeFixed ==
    [][ /\ pc' = "loop" =>
             /\ Len(population') = config.population_size
             /\ Scored(population')
        /\ (pc = "append" /\ Len(next_population) + 2 > config.population_size) =>
             next_population' =
                 Append(next_population, <<child1, calculate_fitness(child1)>>)
      ]_vars

\* An odd population of 3 replaced by a pair of children and a single first
\* child: generation 1 starts with 3 individuals.
C15_Witness ==
    /\ pc = "loop"
    /\ generation = 1
    /\ config.population_size = 3
    /\ Len(population) = 3

Breeding == {"offspring", "mutate1", "mutate2", "append"}

EliteSize == config.population_size \div ELITE_SHARE

C17_TournamentSelection ==
    /\ spc \in {"sampled", "returned"} =>
          /\ Len(tournament) = Min({tournament_size, Len(contestants)})
          /\ \A i, j \in 1..Len(tournament) : i # j => tournament[i] # tournament[j]
          /\ Range(tournament) \subseteq 1..Len(contestants)
          /\ Len(contestants) < tournament_size =>
                 Range(tournament) = 1..Len(contestants)
    /\ spc = "returned" =>
          \E k \in 1..Len(tournament) :
              /\ winner = <<contestants[tournament[k]][1]>>
              /\ \A j \in 1..Len(tournament) :
                     contestants[tournament[j]][2] <= contestants[tournament[k]][2]
              /\ \A j \in 1..(k - 1) :
                     contestants[tournament[j]][2] < contestants[tournament[k]][2]

\* A population larger than the tournament, whose sample holds two fittest
\* individuals with different schedules after a less fit one: the schedule
\* of the first of the two is returned.
C17_Witness ==
    /\ spc = "returned"
    /\ Len(contestants) > tournament_size
    /\ Len(tournament) = 3
    /\ contestants[tournament[1]][2] < contestants[tournament[2]][2]
    /\ contestants[tournament[2]][2] = contestants[tournament[3]][2]
    /\ contestants[tournament[2]][1] # contestants[tournament[3]][1]
    /\ winner = <<contestants[tournament[2]][1]>>

(***************************************************************************)
(* Properties of crossover (specification SpecCross).                      *)
(***************************************************************************)

\* The schedule that is first on the days before the (0-based) index c of
\* days and second from that index on.
DayWise(first, second, days, c) ==
    [d \in Range(days) |->
        IF \E i \in 1..c : days[i] = d THEN first[d] ELSE second[d]]

\* C18: a call of crossover picks c in 1..|DAYS|-1; child1 is parent1 on
\* days[0..c) and parent2 on days[c..], child2 is the mirror image, so each
\* child holds a whole day of each parent; no dict that existed before the
\* call is changed, parents included; no dict reachable from a child is
\* reachable from a parent or from the other child, also when parent1 and
\* parent2 are one object.  For the engine's DAYS the contents of the
\* children are a result of the operator crossover on the contents of the
\* parents.
C18_CrossoverDayWiseNoSharing ==
    [][ (xpc = "call" /\ xpc' = "returned") =>
          LET p1 == Value(heap, xparent1)
              p2 == Value(heap, xparent2)
              c1 == Value(heap', xchild1')
              c2 == Value(heap', xchild2')
          IN /\ xpoint' \in 1..(Len(xdays) - 1)
             /\ c1 = DayWise(p1, p2, xdays, xpoint')
             /\ c2 = DayWise(p2, p1, xdays, xpoint')
             /\ \E d \in Range(xdays) : c1[d] = p1[d] /\ c2[d] = p2[d]
             /\ \E d \in Range(xdays) : c1[d] = p2[d] /\ c2[d] = p1[d]
             /\ \A a \in 1..Len(heap) : heap'[a] = heap[a]
             /\ Reach(heap', xchild1') \cap Reach(heap', xchild2') = {}
             /\ \A child \in {xchild1', xchild2'}, parent \in {xparent1, xparent2} :
                    Reach(heap', child) \cap Reach(heap', parent) = {}
             /\ xdays = DAYS => <<c1, c2>> \in crossover(p1, p2)
      ]_vars

\* Two parents that differ on each of three days, crossed at index 2: child1
\* holds two days of parent1 and the last day of parent2.
C18_Witness ==
    /\ xpc = "returned"
    /\ Len(xdays) = 3
    /\ xpoint = 2
    /\ xparent1 # xparent2
    /\ \A d \in Range(xdays) : Value(heap, xparent1)[d] # Value(heap, xparent2)[d]
    /\ Value(heap, xchild1) = DayWise(Value(heap, xparent1), Value(heap, xparent2), xdays, 2)

(***************************************************************************)
(* Properties of count_teacher_conflicts (specification SpecFitness).      *)
(***************************************************************************)

\* The cells of a slot whose subject is not among the subjects of their
\* teacher, plus for each teacher the cells of the slot holding that teacher
\* beyond the first.
SlotConflictTerms(slot, teachers_by_id) ==
    LET full == {c \in DOMAIN slot : slot[c] # None}
        held == {slot[c][1] : c \in full}
        extra == [tch \in held |-> Cardinality({c \in full : slot[c][1] = tch}) - 1]
    IN Cardinality({c \in full : slot[c][2] \notin teachers_by_id[slot[c][1]].subjects})
       + SumOver(extra, held)

\* The orders in which the classes of a slot can be visited.
VisitOrders(slot) ==
    {o \in [1..Cardinality(DOMAIN slot) -> DOMAIN slot] :
        \A i, j \in DOMAIN o : i # j => o[i] # o[j]}

\* C21: count_teacher_conflicts is the sum over all (day, slot) of the
\* unqualified cells plus, per teacher, the cells holding the teacher beyond
\* the first; and the count of a slot is the same in whatever order its
\* classes are visited.
C21_ConflictsAreAdditive ==
    fpc = "one" =>
        LET cells == Range(fshape.days) \X (1..fshape.lessons_per_day)
            terms == [c \in cells |->
                        SlotConflictTerms(fone[c[1]][c[2]], TeachersById(FitnessTeachers))]
        IN /\ fm1.teacher_conflicts = SumOver(terms, cells)
           /\ \A c \in cells : \A o \in VisitOrders(fone[c[1]][c[2]]) :
                  SlotConflictsInOrder(fone[c[1]][c[2]], TeachersById(FitnessTeachers),
                                       o, 1, {}) = terms[c]

\* A scored schedule with a slot in which one teacher is held three times
\* without being qualified, and a slot where a qualified teacher is held
\* twice.
C21_Witness ==
    /\ fpc = "one"
    /\ \E d \in Range(fshape.days), l \in 1..fshape.lessons_per_day :
          \A c \in Range(fshape.classes) : fone[d][l][c] = <<2, 1>>
    /\ \E d \in Range(fshape.days), l \in 1..fshape.lessons_per_day :
          Cardinality({c \in Range(fshape.classes) : fone[d][l][c] = <<1, 1>>}) = 2
    /\ fm1.teacher_conflicts >= 6


(***************************************************************************)
(* Properties of the job API (specification SpecRun).                      *)
(***************************************************************************)

\* The status changes run_generation may commit.
StatusSteps ==
    {<<"queued", "running">>, <<"running", "done">>, <<"running", "failed">>}

\* One step of the job API keeps every run, creates runs as queued, and
\* changes a status only along StatusSteps.
StatusStep ==
    /\ Len(runs') >= Len(runs)
    /\ \A r \in 1..Len(runs') :
          IF r > Len(runs)
          THEN runs'[r].status = "queued"
          ELSE \/ runs'[r].status = runs[r].status
               \/ <<runs[r].status, runs'[r].status>> \in StatusSteps

\* The engine of a run is invoked (its outcome arrives) only while the run
\* is running.
EngineWhileRunning ==
    \A r \in 1..Len(runs) :
        (tasks[r].at = "engine" /\ tasks'[r].at # "engine")
            => runs[r].status = "running"

AnswerByStatus(run_id) ==
    GetRunResult(run_id) =>
        /\ runs[run_id].status \in {"queued", "running", "failed"}
              => response'.code = 409
        /\ runs[run_id].status = "done"
              => /\ response'.code = 200
                 /\ \E i \in 1..Len(results) :
                       /\ results[i].run_id = run_id
                       /\ response'.body = <<results[i].payload>>
        /\ response'.code = 200 => runs[run_id].status = "done"

\* C30: get_run_result returns a payload only for a run that is done and
\* answers 409 for a queued, running or failed run; a run has a
\* TimetableResult row exactly when its status is done; no run has two rows.
C30_ResultOnlyWhenDone ==
    /\ [][\A r \in 1..Len(runs) : AnswerByStatus(r)]_vars
    /\ [](\A r \in 1..MaxRuns :
             /\ Len(ResultsOf(r)) <= 1
             /\ ResultsOf(r) # <<>> <=> (r <= Len(runs) /\ runs[r].status = "done"))

\* The result of a done run has been read while the other run is failed.
C30_Witness ==
    /\ Len(runs) = 2
    /\ runs[1].status = "failed"
    /\ runs[2].status = "done"
    /\ Len(results) = 1
    /\ response = [code |-> 200, body |-> <<results[1].payload>>]


(***************************************************************************)
(* Contiguity of create_random_schedule (specification SpecInit).          *)
(***************************************************************************)

\* C24: in create_random_schedule of services/ga the slots a class occupies
\* on a day are exactly 1..k for some k, after every (class, day) of the
\* random pass and of the minimum-fill pass and in the schedule returned.
C24_LessonsContiguous ==
    ivariant = "ga" =>
        \A i \in 1..Len(idata.classes) : \A d \in Range(idata.days) :
            IsPrefix(ist.schedule, d, idata.classes[i], idata.lessons_per_day)

\* A finished schedule of three lessons a day in which the first class has
\* its first MIN_FILL slots filled and the third empty, and the second class
\* has no lesson because the only teacher is booked in the first slot.
C24_Witness ==
    /\ ivariant = "ga"
    /\ ipc = "done"
    /\ idata.lessons_per_day = 3
    /\ \E d \in Range(idata.days) :
          /\ OccupiedSlots(ist.schedule, d, idata.classes[1], 3) = 1..MIN_FILL
          /\ OccupiedSlots(ist.schedule, d, idata.classes[2], 3) = {}


(***************************************************************************)
(* Properties of compact_mutation (specification SpecMutate).              *)
(***************************************************************************)

MutateClassDays == Range(mshape.classes) \X Range(mshape.days)
MutateSlots == Range(mshape.days) \X (1..mshape.lessons_per_day)

\* C25: compact_mutation keeps, for every class and day, the multiset of the
\* (teacher, subject) assignments of its input, double-booked inputs and
\* lessons restored to their original slot included.
C25_MutationKeepsLessons ==
    mpc = "done" =>
        \A cd \in MutateClassDays : \A a \in MutateCells \ {None} :
            LessonCount(moutput, cd[2], cd[1], mshape.lessons_per_day, a)
                = LessonCount(minput, cd[2], cd[1], mshape.lessons_per_day, a)

\* C26: compact_mutation leaves no (day, slot) with more teacher double
\* bookings than its input had there.
C26_MutationAddsNoDoubleBooking ==
    mpc = "done" =>
        \A c \in MutateSlots :
            DoubleBooked(moutput, c[1], c[2]) <= DoubleBooked(minput, c[1], c[2])


\* A call on a schedule with a double-booked slot that moved a lesson and
\* returned a schedule in which a double booking is left.
C26_Witness ==
    /\ mpc = "done"
    /\ moutput # minput
    /\ \E c \in MutateSlots : DoubleBooked(minput, c[1], c[2]) > 0
    /\ \E c \in MutateSlots : DoubleBooked(moutput, c[1], c[2]) > 0
    /\ \E c \in MutateSlots :
          DoubleBooked(moutput, c[1], c[2]) < DoubleBooked(minput, c[1], c[2])


(***************************************************************************)
(* Qualification over the whole search (specification Spec).               *)
(***************************************************************************)

\* Every chromosome the scheduler holds: the individuals of both
\* populations, the children being bred and the tracked or returned best.
Chromosomes ==
    {population[i][1] : i \in 1..Len(population)}
    \cup {next_population[i][1] : i \in 1..Len(next_population)}
    \cup {child1, child2}
    \cup (IF best_schedule = None THEN {} ELSE {best_schedule[1]})

\* Every non-empty cell (t, s) has s among the subjects of teacher t.
Qualified(schedule) ==
    \A d \in DOMAIN schedule : \A l \in DOMAIN schedule[d] :
        \A c \in DOMAIN schedule[d][l] :
            schedule[d][l][c] # None =>
                \E i \in 1..Len(payload.teachers) :
                    /\ payload.teachers[i].id = schedule[d][l][c][1]
                    /\ schedule[d][l][c][2] \in payload.teachers[i].subjects

\* The double bookings of a schedule, summed over its slots.
RECURSIVE DoubleBookings(_, _)
DoubleBookings(schedule, cells) ==
    IF cells = {} THEN 0
    ELSE LET c == CHOOSE x \in cells : TRUE
         IN DoubleBooked(schedule, c[1], c[2]) + DoubleBookings(schedule, cells \ {c})

\* C27: every chromosome reached by initialization, crossover, point
\* mutation, compaction mutation and the final compaction has only qualified
\* cells, so the teacher_conflicts of an individual and of the result count
\* double bookings only.
C27_AlwaysQualified ==
    /\ \A schedule \in Chromosomes : Qualified(schedule)
    /\ \A i \in 1..Len(population) :
          count_teacher_conflicts(population[i][1], TeachersById(payload.teachers),
                                  DAYS, LESSONS_PER_DAY)
              = DoubleBookings(population[i][1], Range(DAYS) \X (1..LESSONS_PER_DAY))
    /\ pc = "done" =>
          result.statistics.teacher_conflicts
              = DoubleBookings(best_schedule[1], Range(DAYS) \X (1..LESSONS_PER_DAY))

\* A bred individual with a double booking has entered the population.
C27_Witness ==
    /\ pc = "loop"
    /\ generation = 1
    /\ \E i \in 1..Len(population) :
          /\ Qualified(population[i][1])
          /\ count_teacher_conflicts(population[i][1], TeachersById(payload.teachers),
                                     DAYS, LESSONS_PER_DAY) > 0


(***************************************************************************)
(* Conservation under crossover (specification SpecCross).                 *)
(***************************************************************************)

\* count_teacher_conflicts and count_total_lessons of the schedule at an
\* address of a heap.
ConflictsAt(h, a) ==
    count_teacher_conflicts(Value(h, a), TeachersById(CrossTeachers), xdays,
                            Cardinality(DOMAIN Value(h, a)[xdays[1]]))
LessonsAt(h, a) ==
    count_total_lessons(Value(h, a), xdays, Cardinality(DOMAIN Value(h, a)[xdays[1]]))

\* C28: a call of crossover returns children whose teacher conflicts sum to
\* those of the parents, and likewise their total lessons; the children of
\* two conflict-free parents are conflict-free.
C28_CrossoverConserves ==
    [][ (xpc = "call" /\ xpc' = "returned") =>
          /\ ConflictsAt(heap', xchild1') + ConflictsAt(heap', xchild2')
                = ConflictsAt(heap, xparent1) + ConflictsAt(heap, xparent2)
          /\ LessonsAt(heap', xchild1') + LessonsAt(heap', xchild2')
                = LessonsAt(heap, xparent1) + LessonsAt(heap, xparent2)
          /\ (ConflictsAt(heap, xparent1) = 0 /\ ConflictsAt(heap, xparent2) = 0)
                => (ConflictsAt(heap', xchild1') = 0 /\ ConflictsAt(heap', xchild2') = 0)
      ]_vars

\* A conflict-free parent and a parent with conflicts on both days returned
\* two children with conflicts each, with different lesson counts than the
\* parents.
C28_Witness ==
    /\ xpc = "returned"
    /\ ConflictsAt(heap, xparent1) = 0
    /\ ConflictsAt(heap, xparent2) >= 2
    /\ ConflictsAt(heap, xchild1) > 0
    /\ ConflictsAt(heap, xchild2) > 0
    /\ LessonsAt(heap, xchild1) # LessonsAt(heap, xparent1)


(***************************************************************************)
(* The final compaction and the fitness (specification SpecCompact).       *)
(***************************************************************************)

\* calculate_fitness of a schedule of the shape, for the teachers of
\* CompactTeachersById.
CompactFitness(schedule) ==
    calculate_schedule_fitness(schedule, shape.days, shape.lessons_per_day,
                               [t \in 1..MaxTeachers |-> CompactTeachersById[t]],
                               shape.classes, CompactTeachersById)

\* C29: the fitness recomputed after compact_schedule_full, which
\* generate_schedule returns, is never smaller than the fitness of the
\* schedule handed to the compaction, which the loop tracked as best_fitness.
C29_CompactionNeverLowersFitness ==
    cpc = "once" => CompactFitness(once) >= CompactFitness(input)

=============================================================================
